---- MODULE Spec2Model ----
(***************************************************************************)
(* Verification model of the MTWM mixing-plan compiler: the DFMM           *)
(* factorisation (core/dfmm.py), the forest builder and P-value            *)
(* propagation (core/dfmm.py), the peer-node and sharing-candidate         *)
(* discovery (core/problem.py) and the constraint model compiled for the   *)
(* CP-SAT backend (or_tools_solver.py), with the reporter's aggregation    *)
(* (reporting/reporter.py).                                                *)
(*                                                                         *)
(* Indices follow the source: target index m, level l and node index k    *)
(* start at 0.  Python lists are TLA+ sequences, so list[i] is seq[i+1].  *)
(***************************************************************************)
EXTENDS Integers, Sequences, FiniteSets, TLC

VARIABLES
    pc,                    \* position of the run in _run_single_optimization
    cfg,                   \* config.py: MAX_LEVEL_DIFF, MAX_SHARING_VOLUME
    targets_config,        \* the run's target list
    tree_structures,       \* build_dfmm_forest result
    p_values,              \* calculate_p_values_from_structure result
    forest,                \* MTWMProblem.forest
    peer_nodes,            \* MTWMProblem.peer_nodes
    potential_sources_map, \* MTWMProblem.potential_sources_map
    sharing_vars,          \* the intra/inter sharing keys of every node of MTWMProblem.forest
    objective_mode,        \* OrToolsSolver.objective_mode
    solution,              \* the assignment the solver returned
    best_value,            \* the objective value the solver reported
    analysis,              \* SolutionReporter.analyze_solution result
    status,                \* the status cp_model's Solve returned
    ff,                    \* the frame of a call of find_factors_for_sum or generate_unique_permutations
    runner,                \* the frame of a runner's run(): its mode, its loop and its results
    previous               \* what an earlier execution on the same input built, if there was one

vars == <<pc, cfg, targets_config, tree_structures, p_values, forest, peer_nodes,
          potential_sources_map, sharing_vars, objective_mode, solution, best_value, analysis, status, ff, runner, previous>>

----------------------------------------------------------------------------
(* Bounds of the model *)

\* largest total of the ratio sums of one run's targets
MaxTotalSum == 8
\* largest number of targets in one run
MaxTargets == 2
\* largest number of reagents
MaxReagents == 3
\* largest configured MAX_LEVEL_DIFF / MAX_SHARING_VOLUME value tried
MaxConfigValue == 1
\* largest ratio_sum handed to find_factors_for_sum
MaxRatioSum == 20
\* largest max_factor handed to find_factors_for_sum
MaxFactorArg == 6
\* largest MAX_LEVEL_DIFF / MAX_SHARING_VOLUME value tried on the example target
MaxExampleConfigValue == 2
\* longest factor list handed to generate_unique_permutations
MaxPermLen == 4
\* largest ratio sum of a target of a batch
MaxBatchSum == 7
\* largest ratio sum of the small tree next to the tree of four levels
MaxSmallSum == 4
\* largest ratio sum of a single target of three reagents whose tree has
\* two levels of two nodes
MaxWideSum == 12
\* RANDOM_K_RUNS, the number of scenarios of a random batch
RANDOM_K_RUNS == 2

(* Program constants *)

\* config.py MAX_MIXER_SIZE
MAX_MIXER_SIZE == 5
\* Python's None for a nullable configuration value
None == -1
\* 'N/A', what a run without a solution returns for its operations and reagents
NA == -3
\* the "R" tag that marks a peer node in a source triple
R == -2

----------------------------------------------------------------------------
(* Generic list helpers (Python built-ins) *)

RECURSIVE sum(_)
sum(s) == IF s = <<>> THEN 0 ELSE Head(s) + sum(Tail(s))

RECURSIVE prod(_)
prod(s) == IF s = <<>> THEN 1 ELSE Head(s) * prod(Tail(s))

max2(a, b) == IF a >= b THEN a ELSE b

RECURSIVE maxOf(_)
maxOf(s) == IF Len(s) = 1 THEN s[1] ELSE max2(s[1], maxOf(Tail(s)))

min2(a, b) == IF a <= b THEN a ELSE b

\* math.ceil(a / b) for non-negative a and positive b
\* the quotient rounded down
ceil_div_rounded_down(a, b) == a \div b

ceil_div(a, b) == (a + b - 1) \div b

\* [f(i) for i in range(n)]
RangeSeq(n) == [i \in 1..n |-> i - 1]

RECURSIVE Concat(_)
Concat(ss) == IF ss = <<>> THEN <<>> ELSE Head(ss) \o Concat(Tail(ss))

\* list slice s[from:], from counted from 0
SliceFrom(s, from) == SubSeq(s, from + 1, Len(s))

Range(s) == {s[i] : i \in DOMAIN s}

----------------------------------------------------------------------------
(* core/dfmm.py: find_factors_for_sum *)

\* for d in range(max_factor, 1, -1): if n % d == 0: ... break
\* the divisor the loop stops at, None when it runs to its end
RECURSIVE first_divisor(_, _)

\* the loop run upwards, for d in range(2, max_factor + 1)
first_divisor_ascending(n, d) ==
    IF {x \in 2..d : n % x = 0} = {} THEN None
    ELSE CHOOSE x \in 2..d : n % x = 0 /\ \A y \in 2..(x - 1) : n % y # 0

\* the loop started one below max_factor, for d in range(max_factor - 1, 1, -1)
first_divisor_below_max(n, d) ==
    IF {x \in 2..(d - 1) : n % x = 0} = {} THEN None
    ELSE CHOOSE x \in 2..(d - 1) : n % x = 0 /\ \A y \in (x + 1)..(d - 1) : n % y # 0

first_divisor(n, d) ==
    IF d <= 1 THEN None
    ELSE IF n % d = 0 THEN d
    ELSE first_divisor(n, d - 1)

\* list.insert of x before the first element smaller than x
RECURSIVE insert_desc(_, _)
insert_desc(s, x) ==
    IF s = <<>> THEN <<x>>
    ELSE IF x >= Head(s) THEN <<x>> \o s
    ELSE <<Head(s)>> \o insert_desc(Tail(s), x)

\* sorted(factors, reverse=True)
RECURSIVE sorted_reverse(_)
sorted_reverse(s) ==
    IF s = <<>> THEN <<>> ELSE insert_desc(sorted_reverse(Tail(s)), Head(s))

\* the while loop of find_factors_for_sum; found is FALSE for return None
RECURSIVE factors_loop(_, _, _)
factors_loop(n, max_factor, factors) ==
    IF n <= 1 THEN [found |-> TRUE, factors |-> sorted_reverse(factors)]
    ELSE LET d == first_divisor(n, max_factor)
         IN IF d = None THEN [found |-> FALSE, factors |-> <<>>]
            ELSE factors_loop(n \div d, max_factor, Append(factors, d))

find_factors_for_sum(ratio_sum, max_factor) ==
    IF ratio_sum <= 1 THEN [found |-> TRUE, factors |-> <<>>]
    ELSE factors_loop(ratio_sum, max_factor, <<>>)

----------------------------------------------------------------------------
(* core/dfmm.py: generate_unique_permutations *)

remove_at(s, i) == SubSeq(s, 1, i - 1) \o SubSeq(s, i + 1, Len(s))

\* itertools.permutations(factors): one tuple per ordering of the positions,
\* in the order of the positions, equal elements at different positions
\* giving equal tuples
RECURSIVE permutations(_)
permutations(s) ==
    IF s = <<>> THEN <<<<>>>>
    ELSE Concat([i \in 1..Len(s) |->
            LET rest == permutations(remove_at(s, i))
            IN [j \in DOMAIN rest |-> <<s[i]>> \o rest[j]]])

\* list(set(tuples)): every tuple once; the list is kept in the order of
\* first occurrence, the order a set is listed in being left to the runtime
RECURSIVE list_of_set(_)
list_of_set(tuples) ==
    IF tuples = <<>> THEN <<>>
    ELSE LET init == list_of_set(SubSeq(tuples, 1, Len(tuples) - 1))
             last == tuples[Len(tuples)]
         IN IF last \in Range(init) THEN init ELSE Append(init, last)

\* the permutations listed without set(): list(itertools.permutations(factors))
generate_unique_permutations_no_set(factors) ==
    IF factors = <<>> THEN <<<<>>>> ELSE permutations(factors)

generate_unique_permutations(factors) ==
    IF factors = <<>> THEN <<<<>>>> ELSE list_of_set(permutations(factors))

----------------------------------------------------------------------------
(* core/dfmm.py: build_dfmm_forest *)

\* every child of the level is attached to the first parent
RECURSIVE assign_children_first_parent(_, _, _, _)
assign_children_first_parent(children, nodes_from_below_ids, parent_idx, num_nodes_at_level) ==
    IF nodes_from_below_ids = <<>> THEN children
    ELSE assign_children_first_parent(
            [children EXCEPT ![parent_idx + 1] = Append(@, Head(nodes_from_below_ids))],
            Tail(nodes_from_below_ids),
            parent_idx,
            num_nodes_at_level)

\* children of the parents of one level: child j (in index order) goes to
\* parent_idx, which then advances round-robin
RECURSIVE assign_children(_, _, _, _)
assign_children(children, nodes_from_below_ids, parent_idx, num_nodes_at_level) ==
    IF nodes_from_below_ids = <<>> THEN children
    ELSE assign_children(
            [children EXCEPT ![parent_idx + 1] = Append(@, Head(nodes_from_below_ids))],
            Tail(nodes_from_below_ids),
            (parent_idx + 1) % num_nodes_at_level,
            num_nodes_at_level)

\* one pass of the level loop, from level l up to level 0
RECURSIVE build_levels(_, _, _, _, _)
build_levels(factors, l, values_to_process, nodes_from_below_ids, tree_nodes) ==
    IF l < 0 THEN tree_nodes
    ELSE
      LET factor == factors[l + 1]
          level_remainders == [i \in DOMAIN values_to_process |-> values_to_process[i] % factor]
          level_quotients == [i \in DOMAIN values_to_process |-> values_to_process[i] \div factor]
          total_inputs == sum(level_remainders) + Len(nodes_from_below_ids)
          num_nodes_at_level == IF total_inputs > 0 THEN ceil_div(total_inputs, factor) ELSE 0
          current_level_node_ids == [i \in 1..num_nodes_at_level |-> <<l, i - 1>>]
          children ==
            IF num_nodes_at_level > 0
            THEN assign_children([i \in 1..num_nodes_at_level |-> <<>>],
                                 nodes_from_below_ids, 0, num_nodes_at_level)
            ELSE <<>>
          added == [id \in Range(current_level_node_ids) |-> children[id[2] + 1]]
      IN build_levels(factors, l - 1, level_quotients, current_level_node_ids,
                      tree_nodes @@ added)

\* the tree of one target: node id <<l, k>> |-> list of children ids
build_tree(target) ==
    build_levels(target.factors, Len(target.factors) - 1, target.ratios, <<>>, <<>>)

build_dfmm_forest(tc) == [m \in DOMAIN tc |-> build_tree(tc[m])]

----------------------------------------------------------------------------
(* core/dfmm.py: calculate_p_values_from_structure *)

RECURSIVE get_p_for_node(_, _, _)

\* the P-value with a childless node given the factor of its own level
get_p_for_node_own_factor(tree_structure, factors, node_id) ==
    LET level == node_id[1]
        children == tree_structure[node_id]
    IN IF children = <<>>
       THEN factors[level + 1]
       ELSE maxOf([i \in DOMAIN children |->
                      get_p_for_node(tree_structure, factors, children[i])])
            * factors[level + 1]

\* the P-value taken over the sum of the children's P-values
get_p_for_node_sum_children(tree_structure, factors, node_id) ==
    LET level == node_id[1]
        children == tree_structure[node_id]
    IN IF children = <<>>
       THEN prod(SliceFrom(factors, level))
       ELSE sum([i \in DOMAIN children |->
                    get_p_for_node(tree_structure, factors, children[i])])
            * factors[level + 1]

get_p_for_node(tree_structure, factors, node_id) ==
    LET level == node_id[1]
        children == tree_structure[node_id]
    IN IF children = <<>>
       THEN prod(SliceFrom(factors, level))
       ELSE maxOf([i \in DOMAIN children |->
                      get_p_for_node(tree_structure, factors, children[i])])
            * factors[level + 1]

calculate_p_values_from_structure(forest_structure, tc) ==
    [m \in DOMAIN forest_structure |->
        [node_id \in DOMAIN forest_structure[m] |->
            get_p_for_node(forest_structure[m], tc[m].factors, node_id)]]

----------------------------------------------------------------------------
(* core/problem.py: MTWMProblem *)

\* list index m of the source is position m + 1 here
tree_of(ts, m) == ts[m + 1]
target_of(tc, m) == tc[m + 1]
factor_at(tc, m, l) == tc[m + 1].factors[l + 1]
p_of(pv, m, l, k) == pv[m + 1][<<l, k>>]

RECURSIVE sorted(_)
sorted(S) ==
    IF S = {} THEN <<>>
    ELSE LET lo == CHOOSE x \in S : \A y \in S : x <= y
         IN <<lo>> \o sorted(S \ {lo})

\* _define_base_variables: frst[m][level] is the list of the level's nodes,
\* levels and node indices sorted; a node is kept as its node_idx
define_base_variables(ts) ==
    [i \in DOMAIN ts |->
        [level \in {id[1] : id \in DOMAIN ts[i]} |->
            sorted({id[2] : id \in {x \in DOMAIN ts[i] : x[1] = level}})]]

\* for target_idx, tree in enumerate(frst) for level, nodes in tree.items()
\* for node_idx in range(len(nodes)): the triples, in iteration order
nodes_of_tree(frst, m) ==
    LET tree == frst[m + 1]
        levels == sorted(DOMAIN tree)
    IN Concat([i \in DOMAIN levels |->
                  [j \in 1..Len(tree[levels[i]]) |-> <<m, levels[i], j - 1>>]])

all_dest_nodes(frst) ==
    Concat([i \in DOMAIN frst |-> nodes_of_tree(frst, i - 1)])

\* itertools.combinations(s, 2)
RECURSIVE combinations2(_)
combinations2(s) ==
    IF Len(s) < 2 THEN <<>>
    ELSE [j \in 1..(Len(s) - 1) |-> <<s[1], s[j + 1]>>] \o combinations2(Tail(s))

\* the test of one pair without the leaf-leaf exclusion of step 4
is_peer_pair_keep_leaves(tc, pv, node_a_id, node_b_id) ==
    LET p_val_a == p_of(pv, node_a_id[1], node_a_id[2], node_a_id[3])
        p_val_b == p_of(pv, node_b_id[1], node_b_id[2], node_b_id[3])
    IN IF p_val_a # p_val_b THEN FALSE
       ELSE TRUE

\* the test of one pair in _define_peer_mixing_nodes (steps 3 and 4)
is_peer_pair(tc, pv, node_a_id, node_b_id) ==
    LET p_val_a == p_of(pv, node_a_id[1], node_a_id[2], node_a_id[3])
        p_val_b == p_of(pv, node_b_id[1], node_b_id[2], node_b_id[3])
        f_a == factor_at(tc, node_a_id[1], node_a_id[2])
        f_b == factor_at(tc, node_b_id[1], node_b_id[2])
        is_leaf_a == p_val_a = f_a
        is_leaf_b == p_val_b = f_b
    IN IF p_val_a # p_val_b THEN FALSE
       ELSE IF is_leaf_a /\ is_leaf_b THEN FALSE
       ELSE TRUE

define_peer_mixing_nodes(tc, frst, pv) ==
    LET all_dfmm_nodes == SelectSeq(all_dest_nodes(frst), LAMBDA id : id[2] # 0)
        pairs == SelectSeq(combinations2(all_dfmm_nodes),
                           LAMBDA pr : is_peer_pair(tc, pv, pr[1], pr[2]))
    IN [i \in DOMAIN pairs |->
          [source_a_id |-> pairs[i][1],
           source_b_id |-> pairs[i][2],
           p_value |-> p_of(pv, pairs[i][1][1], pairs[i][1][2], pairs[i][1][3])]]

\* the product loop with the divisibility test taken on p_dst itself
is_potential_source_no_division(tc, pv, peers, max_level_diff, dst, src) ==
    LET dst_level == dst[2]
        p_dst == p_of(pv, dst[1], dst[2], dst[3])
        peer_node == peers[src[2] + 1]
        p_src == IF src[1] = R THEN peer_node.p_value
                 ELSE p_of(pv, src[1], src[2], src[3])
        l_src_eff == IF src[1] = R
                     THEN max2(peer_node.source_a_id[2], peer_node.source_b_id[2])
                     ELSE src[2]
    IN IF src[1] # R /\ dst = src THEN FALSE
       ELSE IF ~((l_src_eff > dst_level) \/ (l_src_eff = 0)) THEN FALSE
       ELSE IF max_level_diff # None /\ l_src_eff > dst_level + max_level_diff THEN FALSE
       ELSE IF p_dst % p_src # 0 THEN FALSE
       ELSE TRUE

\* the loop body without the divisibility test: the level rules alone
is_potential_source_levels_only(tc, pv, peers, max_level_diff, dst, src) ==
    LET dst_level == dst[2]
        peer_node == peers[src[2] + 1]
        l_src_eff == IF src[1] = R
                     THEN max2(peer_node.source_a_id[2], peer_node.source_b_id[2])
                     ELSE src[2]
    IN IF src[1] # R /\ dst = src THEN FALSE
       ELSE IF ~((l_src_eff > dst_level) \/ (l_src_eff = 0)) THEN FALSE
       ELSE IF max_level_diff # None /\ l_src_eff > dst_level + max_level_diff THEN FALSE
       ELSE TRUE

\* the loop body with the operands of the divisibility test exchanged
is_potential_source_swapped(tc, pv, peers, max_level_diff, dst, src) ==
    LET dst_level == dst[2]
        p_dst == p_of(pv, dst[1], dst[2], dst[3])
        f_dst == factor_at(tc, dst[1], dst[2])
        peer_node == peers[src[2] + 1]
        p_src == IF src[1] = R THEN peer_node.p_value
                 ELSE p_of(pv, src[1], src[2], src[3])
        l_src_eff == IF src[1] = R
                     THEN max2(peer_node.source_a_id[2], peer_node.source_b_id[2])
                     ELSE src[2]
    IN IF src[1] # R /\ dst = src THEN FALSE
       ELSE IF ~((l_src_eff > dst_level) \/ (l_src_eff = 0)) THEN FALSE
       ELSE IF max_level_diff # None /\ l_src_eff > dst_level + max_level_diff THEN FALSE
       ELSE IF p_src % (p_dst \div f_dst) # 0 THEN FALSE
       ELSE TRUE

\* the loop body with the level test turned round: a source above its
\* destination (smaller level) passes
is_potential_source_shallower(tc, pv, peers, max_level_diff, dst, src) ==
    LET dst_level == dst[2]
        p_dst == p_of(pv, dst[1], dst[2], dst[3])
        f_dst == factor_at(tc, dst[1], dst[2])
        peer_node == peers[src[2] + 1]
        p_src == IF src[1] = R THEN peer_node.p_value
                 ELSE p_of(pv, src[1], src[2], src[3])
        l_src_eff == IF src[1] = R
                     THEN max2(peer_node.source_a_id[2], peer_node.source_b_id[2])
                     ELSE src[2]
    IN IF src[1] # R /\ dst = src THEN FALSE
       ELSE IF ~((l_src_eff < dst_level) \/ (l_src_eff = 0)) THEN FALSE
       ELSE IF max_level_diff # None /\ l_src_eff > dst_level + max_level_diff THEN FALSE
       ELSE IF (p_dst \div f_dst) % p_src # 0 THEN FALSE
       ELSE TRUE

\* the body of the product loop of _precompute_potential_sources_v2:
\* TRUE when (dst, src) reaches step 5 and is appended
is_potential_source(tc, pv, peers, max_level_diff, dst, src) ==
    LET dst_level == dst[2]
        p_dst == p_of(pv, dst[1], dst[2], dst[3])
        f_dst == factor_at(tc, dst[1], dst[2])
        peer_node == peers[src[2] + 1]
        p_src == IF src[1] = R THEN peer_node.p_value
                 ELSE p_of(pv, src[1], src[2], src[3])
        l_src_eff == IF src[1] = R
                     THEN max2(peer_node.source_a_id[2], peer_node.source_b_id[2])
                     ELSE src[2]
    IN IF src[1] # R /\ dst = src THEN FALSE
       ELSE IF ~((l_src_eff > dst_level) \/ (l_src_eff = 0)) THEN FALSE
       ELSE IF max_level_diff # None /\ l_src_eff > dst_level + max_level_diff THEN FALSE
       ELSE IF (p_dst \div f_dst) % p_src # 0 THEN FALSE
       ELSE TRUE

\* all_sources in an order that is not the same in every execution: the
\* peer nodes come first when the input was executed before
all_sources_by_execution(frst, peers) ==
    IF previous.executions = 0
    THEN all_dest_nodes(frst) \o [i \in DOMAIN peers |-> <<R, i - 1, 0>>]
    ELSE [i \in DOMAIN peers |-> <<R, i - 1, 0>>] \o all_dest_nodes(frst)

all_sources(frst, peers) ==
    all_dest_nodes(frst) \o [i \in DOMAIN peers |-> <<R, i - 1, 0>>]

precompute_potential_sources_v2(tc, frst, pv, peers, max_level_diff) ==
    LET dests == all_dest_nodes(frst)
        srcs == all_sources(frst, peers)
        found(dst) == SelectSeq(srcs,
            LAMBDA src : is_potential_source(tc, pv, peers, max_level_diff, dst, src))
    IN [dst \in {d \in Range(dests) : found(d) # <<>>} |-> found(dst)]

\* potential_sources_map.get(key, [])
sources_of(source_map, dst) ==
    IF dst \in DOMAIN source_map THEN source_map[dst] ELSE <<>>

----------------------------------------------------------------------------
(* utils/helpers.py: the sharing keys.  Every key of the source carries   *)
(* the constant prefix "from_", left out here; a key is kept as its       *)
(* prefix and its indices, which the source's string encodes injectively. *)

KEY_INTRA_PREFIX == "l"
KEY_INTER_PREFIX == "t"
KEY_PEER_PREFIX == "R_idx"

create_intra_key(level, node_idx) == <<KEY_INTRA_PREFIX, level, node_idx>>
create_inter_key(target_idx, level, node_idx) == <<KEY_INTER_PREFIX, target_idx, level, node_idx>>
create_peer_key(peer_idx) == <<KEY_PEER_PREFIX, peer_idx>>

\* core/problem.py _create_sharing_vars_for_node: the keys of the two
\* dictionaries, in insertion order
create_sharing_vars_for_node(source_map, dst) ==
    LET potential_sources == sources_of(source_map, dst)
        intra_srcs == SelectSeq(potential_sources, LAMBDA src : src[1] = dst[1])
        inter_srcs == SelectSeq(potential_sources, LAMBDA src : src[1] # dst[1])
    IN [intra_sharing_vars |->
            [i \in DOMAIN intra_srcs |-> create_intra_key(intra_srcs[i][2], intra_srcs[i][3])],
        inter_sharing_vars |->
            [i \in DOMAIN inter_srcs |->
                IF inter_srcs[i][1] = R
                THEN create_peer_key(inter_srcs[i][2])
                ELSE create_inter_key(inter_srcs[i][1], inter_srcs[i][2], inter_srcs[i][3])]]

\* core/problem.py _define_sharing_variables
define_sharing_variables(frst, source_map) ==
    [dst \in Range(all_dest_nodes(frst)) |-> create_sharing_vars_for_node(source_map, dst)]

----------------------------------------------------------------------------
(* or_tools_solver.py: the compiled model.  An assignment a maps every    *)
(* DFMM node <<m, l, k>> and every peer node <<R, i, 0>> to the values of *)
(* its variables.  The solver reads problem.p_values, the P-value maps    *)
(* handed to MTWMProblem (kept there as p_value_maps).                    *)

\* R * W product variables: NewIntVar(0, MAX_PRODUCT_BOUND, ...)
MAX_PRODUCT_BOUND == 50000

dfmm_nodes == all_dest_nodes(forest)
peer_ids == [i \in DOMAIN peer_nodes |-> <<R, i - 1, 0>>]
num_reagents == IF targets_config = <<>> THEN 0 ELSE Len(targets_config[1].ratios)
node_p(n) == p_of(p_values, n[1], n[2], n[3])
node_f(n) == factor_at(targets_config, n[1], n[2])
peer_of(id) == peer_nodes[id[2] + 1]

\* _define_or_tools_variables: the number of NewIntVar and NewBoolVar calls.
\* A DFMM node has its ratio and reagent variables, total_input_var,
\* is_active_var, waste_var and one variable per sharing key; a peer node
\* has its ratio variables, from_a, from_b, total_input_var, is_active_var
\* and waste_var
RECURSIVE node_variables(_, _, _)
node_variables(reagents, sv, ids) ==
    IF ids = {} THEN 0
    ELSE LET id == CHOOSE x \in ids : TRUE
         IN (2 * reagents + 3 + Len(sv[id].intra_sharing_vars)
                + Len(sv[id].inter_sharing_vars))
            + node_variables(reagents, sv, ids \ {id})

declared_variables(tc, frst, peers, sv) ==
    LET reagents == IF tc = <<>> THEN 0 ELSE Len(tc[1].ratios)
    IN node_variables(reagents, sv, Range(all_dest_nodes(frst)))
       + Len(peers) * (reagents + 5)

\* MAX_BOUND of _define_or_tools_variables
MAX_BOUND ==
    LET max_ratio_sum == IF targets_config = <<>> THEN 1
                         ELSE maxOf([i \in DOMAIN targets_config |-> sum(targets_config[i].ratios)])
        b == max_ratio_sum * MAX_MIXER_SIZE * 10
    IN IF b < 900 THEN 900 ELSE b

\* min(MAX_BOUND, MAX_SHARING_VOLUME or MAX_BOUND): 0 and None are both falsy
max_sharing_vol(msv) ==
    min2(MAX_BOUND, IF msv = None \/ msv = 0 THEN MAX_BOUND ELSE msv)

\* the keys the solver looks up
key_intra(l_src, k_src) == <<"l", l_src, k_src>>
key_inter(m_src, l_src, k_src) == <<"m", m_src, l_src, k_src>>
key_peer(peer_node_index) == <<"R_idx", peer_node_index>>

RECURSIVE SumOver(_, _)
SumOver(f, S) ==
    IF S = {} THEN 0
    ELSE LET x == CHOOSE y \in S : TRUE IN f[x] + SumOver(f, S \ {x})

\* sum(self._get_input_vars(node_vars))
sum_input_vars(node_vars) ==
    sum(node_vars.reagent_vars)
    + SumOver(node_vars.intra_sharing_vars, DOMAIN node_vars.intra_sharing_vars)
    + SumOver(node_vars.inter_sharing_vars, DOMAIN node_vars.inter_sharing_vars)

\* _get_outgoing_vars: the variables summed as the output of a DFMM node,
\* each named by the dictionary, the node and the key that hold it
get_outgoing_vars(src) ==
    LET to_dfmm(dst) ==
            IF src[1] = dst[1]
               /\ key_intra(src[2], src[3]) \in Range(sharing_vars[dst].intra_sharing_vars)
            THEN << [dict |-> "intra_sharing_vars", node |-> dst,
                     key |-> key_intra(src[2], src[3])] >>
            ELSE IF src[1] # dst[1]
               /\ key_inter(src[1], src[2], src[3]) \in Range(sharing_vars[dst].inter_sharing_vars)
            THEN << [dict |-> "inter_sharing_vars", node |-> dst,
                     key |-> key_inter(src[1], src[2], src[3])] >>
            ELSE <<>>
        to_peer(id) ==
            (IF peer_of(id).source_a_id = src
             THEN << [dict |-> "input_vars", node |-> id, key |-> <<"from_a">>] >> ELSE <<>>)
            \o
            (IF peer_of(id).source_b_id = src
             THEN << [dict |-> "input_vars", node |-> id, key |-> <<"from_b">>] >> ELSE <<>>)
    IN Concat([i \in DOMAIN dfmm_nodes |-> to_dfmm(dfmm_nodes[i])])
       \o Concat([i \in DOMAIN peer_ids |-> to_peer(peer_ids[i])])

\* _get_outgoing_vars_from_peer
get_outgoing_vars_from_peer(peer_node_index) ==
    LET to_dfmm(dst) ==
            IF key_peer(peer_node_index) \in Range(sharing_vars[dst].inter_sharing_vars)
            THEN << [dict |-> "inter_sharing_vars", node |-> dst,
                     key |-> key_peer(peer_node_index)] >>
            ELSE <<>>
    IN Concat([i \in DOMAIN dfmm_nodes |-> to_dfmm(dfmm_nodes[i])])

\* solver.Value of a sharing or input variable
value_of(a, ref) ==
    IF ref.dict = "intra_sharing_vars" THEN a[ref.node].intra_sharing_vars[ref.key]
    ELSE IF ref.dict = "inter_sharing_vars" THEN a[ref.node].inter_sharing_vars[ref.key]
    ELSE IF ref.key = <<"from_a">> THEN a[ref.node].from_a
    ELSE a[ref.node].from_b

\* sum(outgoing) under an assignment
total_used(a, refs) == sum([i \in DOMAIN refs |-> value_of(a, refs[i])])

outgoing_of(id) ==
    IF id[1] = R THEN get_outgoing_vars_from_peer(id[2]) ELSE get_outgoing_vars(id)

\* the source node a sharing key of destination dst names, as the
\* concentration constraint parses it
intra_source(dst, key) == <<dst[1], key[2], key[3]>>
inter_source(key) ==
    IF key[1] = "R_idx" THEN <<R, key[2], 0>> ELSE <<key[2], key[3], key[4]>>
source_p(src) == IF src[1] = R THEN peer_of(src).p_value ELSE node_p(src)

\* int(m_src_str) of _set_concentration_constraints raises ValueError on an
\* inter key that is neither from_R_idx... nor from_m...
inter_key_parses(key) == key[1] = "R_idx" \/ key[1] = "m"

\* _set_initial_constraints reads forest_vars[m][0][0] of every target
root_exists(m) == <<m, 0, 0>> \in Range(dfmm_nodes)

\* OrToolsSolver.__init__ completes without an exception
compiles ==
    /\ \A i \in DOMAIN targets_config : root_exists(i - 1)
    /\ \A n \in Range(dfmm_nodes) :
          \A key \in Range(sharing_vars[n].inter_sharing_vars) : inter_key_parses(key)

\* _set_initial_constraints, for target m
initial_constraint(a, m) ==
    \A t \in 1..num_reagents :
        a[<<m, 0, 0>>].ratio_vars[t] = target_of(targets_config, m).ratios[t]

\* _set_conservation_constraints
conservation_constraint(a, n) ==
    a[n].total_input_var = sum_input_vars(a[n])

\* the right-hand side of the concentration equation of node n, reagent t
concentration_rhs(a, n, node_vars, t) ==
    LET p_dst == node_p(n)
        intra == node_vars.intra_sharing_vars
        inter == node_vars.inter_sharing_vars
        intra_term == [key \in DOMAIN intra |->
            a[intra_source(n, key)].ratio_vars[t] * intra[key]
              * (p_dst \div source_p(intra_source(n, key)))]
        inter_term == [key \in DOMAIN inter |->
            a[inter_source(key)].ratio_vars[t] * inter[key]
              * (p_dst \div source_p(inter_source(key)))]
    IN p_dst * node_vars.reagent_vars[t]
       + SumOver(intra_term, DOMAIN intra) + SumOver(inter_term, DOMAIN inter)

\* the product variables of node n stay within their domain
products_in_bound(a, n) ==
    /\ \A key \in DOMAIN a[n].intra_sharing_vars : \A t \in 1..num_reagents :
          a[intra_source(n, key)].ratio_vars[t] * a[n].intra_sharing_vars[key]
             <= MAX_PRODUCT_BOUND
    /\ \A key \in DOMAIN a[n].inter_sharing_vars : \A t \in 1..num_reagents :
          a[inter_source(key)].ratio_vars[t] * a[n].inter_sharing_vars[key]
             <= MAX_PRODUCT_BOUND

\* _set_concentration_constraints
concentration_constraint(a, n) ==
    /\ products_in_bound(a, n)
    /\ \A t \in 1..num_reagents :
          node_f(n) * a[n].ratio_vars[t] = concentration_rhs(a, n, a[n], t)

\* the ratio-sum constraint enforced only on the activity flag of the node
ratio_sum_constraint_if_active(a, n) ==
    IF n[2] = 0 THEN sum(a[n].ratio_vars) = node_p(n)
    ELSE /\ a[n].is_active_var => sum(a[n].ratio_vars) = node_p(n)
         /\ ~a[n].is_active_var => sum(a[n].ratio_vars) = 0

\* _set_ratio_sum_constraints
ratio_sum_constraint(a, n) == sum(a[n].ratio_vars) = node_p(n)

\* _set_leaf_node_constraints
leaf_node_constraint(a, n) ==
    node_p(n) = node_f(n) =>
        \A t \in 1..num_reagents : a[n].ratio_vars[t] = a[n].reagent_vars[t]

\* the capacity constraint without the branch enforced on is_active.Not()
mixer_capacity_constraint_active_only(a, n) ==
    LET f_value == node_f(n)
        total_sum == a[n].total_input_var
        is_active == a[n].is_active_var
    IN IF n[2] = 0 THEN total_sum = f_value
       ELSE is_active => total_sum = f_value

\* _set_mixer_capacity_constraints
mixer_capacity_constraint(a, n) ==
    LET f_value == node_f(n)
        total_sum == a[n].total_input_var
        is_active == a[n].is_active_var
    IN IF n[2] = 0 THEN total_sum = f_value
       ELSE /\ is_active => total_sum = f_value
            /\ ~is_active => total_sum = 0

\* the range constraint with the upper bound one too small
range_constraint_below(a, n) ==
    \A t \in 1..num_reagents : a[n].reagent_vars[t] < node_f(n) - 1

\* _set_range_constraints
range_constraint(a, n) ==
    \A t \in 1..num_reagents : a[n].reagent_vars[t] <= node_f(n) - 1

\* the domains of the variables of a DFMM node (_define_or_tools_variables)
dfmm_domains(a, n) ==
    /\ \A t \in 1..num_reagents :
          /\ a[n].ratio_vars[t] \in 0..MAX_BOUND
          /\ a[n].reagent_vars[t] \in 0..MAX_BOUND
    /\ \A key \in DOMAIN a[n].intra_sharing_vars :
          a[n].intra_sharing_vars[key] \in 0..max_sharing_vol(cfg.MAX_SHARING_VOLUME)
    /\ \A key \in DOMAIN a[n].inter_sharing_vars :
          a[n].inter_sharing_vars[key] \in 0..max_sharing_vol(cfg.MAX_SHARING_VOLUME)
    /\ a[n].total_input_var \in 0..MAX_BOUND

\* _set_activity_constraints, for a non-root DFMM node or a peer node
activity_constraint(a, id) ==
    LET used == total_used(a, outgoing_of(id))
    IN /\ a[id].is_used => used >= 1
       /\ ~a[id].is_used => used = 0
       /\ a[id].is_active_var => a[id].is_used

\* the domains of the variables of a peer node (_define_or_tools_variables)
peer_domains(a, id) ==
    /\ \A t \in 1..num_reagents : a[id].ratio_vars[t] \in 0..peer_of(id).p_value
    /\ a[id].from_a \in 0..1
    /\ a[id].from_b \in 0..1
    /\ a[id].total_input_var \in 0..2

\* the peer constraints without the branch enforced on is_active.Not() for
\* the input selectors
peer_mixing_constraint_active_only(a, id) ==
    LET total_input == a[id].total_input_var
        is_active == a[id].is_active_var
        w_a == a[id].from_a
        w_b == a[id].from_b
        r_new_vars == a[id].ratio_vars
        r_a_vars == a[peer_of(id).source_a_id].ratio_vars
        r_b_vars == a[peer_of(id).source_b_id].ratio_vars
    IN /\ total_input = w_a + w_b
       /\ is_active => (total_input = 2 /\ w_a = 1 /\ w_b = 1)
       /\ is_active => sum(r_new_vars) = peer_of(id).p_value
       /\ ~is_active => sum(r_new_vars) = 0
       /\ is_active => \A t \in 1..num_reagents : 2 * r_new_vars[t] = r_a_vars[t] + r_b_vars[t]

\* _set_peer_mixing_constraints
peer_mixing_constraint(a, id) ==
    LET total_input == a[id].total_input_var
        is_active == a[id].is_active_var
        w_a == a[id].from_a
        w_b == a[id].from_b
        r_new_vars == a[id].ratio_vars
        r_a_vars == a[peer_of(id).source_a_id].ratio_vars
        r_b_vars == a[peer_of(id).source_b_id].ratio_vars
    IN /\ total_input = w_a + w_b
       /\ is_active => (total_input = 2 /\ w_a = 1 /\ w_b = 1)
       /\ ~is_active => (total_input = 0 /\ w_a = 0 /\ w_b = 0)
       /\ is_active => sum(r_new_vars) = peer_of(id).p_value
       /\ ~is_active => sum(r_new_vars) = 0
       /\ is_active => \A t \in 1..num_reagents : 2 * r_new_vars[t] = r_a_vars[t] + r_b_vars[t]

\* _set_objective_function: waste_var == total_prod - total_used, for a
\* non-root DFMM node (waste in 0..MAX_BOUND) or a peer node (waste in 0..2)
waste_constraint(a, id) ==
    /\ a[id].waste_var = a[id].total_input_var - total_used(a, outgoing_of(id))
    /\ a[id].waste_var \in 0..(IF id[1] = R THEN 2 ELSE MAX_BOUND)

non_root_nodes == SelectSeq(dfmm_nodes, LAMBDA n : n[2] # 0)

\* every constraint _set_variables_and_constraints adds holds under a
satisfies(a) ==
    /\ \A i \in DOMAIN targets_config : initial_constraint(a, i - 1)
    /\ \A n \in Range(dfmm_nodes) :
          /\ dfmm_domains(a, n)
          /\ conservation_constraint(a, n)
          /\ concentration_constraint(a, n)
          /\ ratio_sum_constraint(a, n)
          /\ leaf_node_constraint(a, n)
          /\ mixer_capacity_constraint(a, n)
          /\ range_constraint(a, n)
    /\ \A n \in Range(non_root_nodes) :
          activity_constraint(a, n) /\ waste_constraint(a, n)
    /\ \A id \in Range(peer_ids) :
          /\ peer_domains(a, id)
          /\ activity_constraint(a, id)
          /\ peer_mixing_constraint(a, id)
          /\ waste_constraint(a, id)

----------------------------------------------------------------------------
(* cp_model.CpSolver.Solve: the assignments that satisfy the compiled     *)
(* model.  They are enumerated source before destination (a candidate     *)
(* source has a smaller P-value than its destination, a peer node the     *)
(* P-value of its sources); the input variables of a node are tried up to *)
(* a total of its mixer size, the only totals the capacity constraint     *)
(* leaves, and each equation is solved for the variable it defines.       *)

\* the sequences of length n over the naturals whose sum is at most budget
RECURSIVE BoundedVectors(_, _)
BoundedVectors(n, budget) ==
    IF n = 0 THEN {<<>>}
    ELSE UNION {{<<v>> \o r : r \in BoundedVectors(n - 1, budget - v)} : v \in 0..budget}

IndexOf(s, x) == CHOOSE i \in DOMAIN s : s[i] = x

\* the input variables of DFMM node n and its activity flag
dfmm_input_vars(n, v, is_active) ==
    LET keys == sharing_vars[n]
        ni == Len(keys.intra_sharing_vars)
    IN [reagent_vars |-> SubSeq(v, 1, num_reagents),
        intra_sharing_vars |->
           [key \in Range(keys.intra_sharing_vars) |->
               v[num_reagents + IndexOf(keys.intra_sharing_vars, key)]],
        inter_sharing_vars |->
           [key \in Range(keys.inter_sharing_vars) |->
               v[num_reagents + ni + IndexOf(keys.inter_sharing_vars, key)]],
        is_active_var |-> is_active,
        total_input_var |-> sum(v)]

\* the constraints that read only the inputs of node n
dfmm_input_constraints(a, n) ==
    /\ conservation_constraint(a, n)
    /\ mixer_capacity_constraint(a, n)
    /\ range_constraint(a, n)

\* the ratio variables of node n: the concentration equation solved for them
dfmm_ratio_vars(a, n) ==
    [t \in 1..num_reagents |-> concentration_rhs(a, n, a[n], t) \div node_f(n)]

\* the constraints that read the ratios of node n and of its sources
dfmm_ratio_constraints(a, n) ==
    /\ n[2] = 0 => initial_constraint(a, n[1])
    /\ dfmm_domains(a, n)
    /\ concentration_constraint(a, n)
    /\ ratio_sum_constraint(a, n)
    /\ leaf_node_constraint(a, n)

extend_dfmm(as, n) ==
    LET keys == sharing_vars[n]
        width == num_reagents + Len(keys.intra_sharing_vars) + Len(keys.inter_sharing_vars)
        inputs(a) == {b \in {a @@ (n :> dfmm_input_vars(n, v, act)) :
                                v \in BoundedVectors(width, node_f(n)), act \in BOOLEAN} :
                         dfmm_input_constraints(b, n)}
        ratios(b) == [b EXCEPT ![n] = @ @@ [ratio_vars |-> dfmm_ratio_vars(b, n)]]
    IN UNION {{c \in {ratios(b) : b \in inputs(a)} : dfmm_ratio_constraints(c, n)} : a \in as}

\* the values of the variables of a peer node: its ratio is 0 or the mean
\* of its sources
peer_node_vars(a, id, w_a, w_b, is_active) ==
    [from_a |-> w_a, from_b |-> w_b, is_active_var |-> is_active,
     total_input_var |-> w_a + w_b,
     ratio_vars |-> [t \in 1..num_reagents |->
        IF is_active
        THEN (a[peer_of(id).source_a_id].ratio_vars[t]
              + a[peer_of(id).source_b_id].ratio_vars[t]) \div 2
        ELSE 0]]

extend_peer(as, id) ==
    LET ext(a) == {a @@ (id :> peer_node_vars(a, id, w_a, w_b, act)) :
                      w_a \in 0..1, w_b \in 0..1, act \in BOOLEAN}
    IN UNION {{b \in ext(a) : peer_domains(b, id) /\ peer_mixing_constraint(b, id)} :
              a \in as}

\* the nodes in the order they are assigned
solve_order ==
    LET max_p == IF dfmm_nodes = <<>> THEN 0
                 ELSE maxOf([i \in DOMAIN dfmm_nodes |-> node_p(dfmm_nodes[i])])
    IN Concat([p \in 1..max_p |->
          SelectSeq(dfmm_nodes, LAMBDA n : node_p(n) = p)
          \o SelectSeq(peer_ids, LAMBDA id : peer_of(id).p_value = p)])

RECURSIVE assign_nodes(_, _)
assign_nodes(order, i) ==
    IF i = 0 THEN {<<>>}
    ELSE IF order[i][1] = R
         THEN extend_peer(assign_nodes(order, i - 1), order[i])
         ELSE extend_dfmm(assign_nodes(order, i - 1), order[i])

\* waste_var and IsUsed of the non-root nodes and the peer nodes
RECURSIVE assign_outputs(_, _, _)
assign_outputs(as, ids, i) ==
    IF i = 0 THEN as
    ELSE LET id == ids[i]
             ext(a) == {[a EXCEPT ![id] = @ @@
                           [waste_var |-> a[id].total_input_var
                                          - total_used(a, outgoing_of(id)),
                            is_used |-> u]] : u \in BOOLEAN}
         IN UNION {{b \in ext(a) : activity_constraint(b, id) /\ waste_constraint(b, id)} :
                   a \in assign_outputs(as, ids, i - 1)}

satisfying_assignments ==
    LET order == solve_order
        ids == non_root_nodes \o peer_ids
    IN {a \in assign_outputs(assign_nodes(order, Len(order)), ids, Len(ids)) : satisfies(a)}

----------------------------------------------------------------------------
(* or_tools_solver.py _set_objective_function: the objective expression   *)

total_waste(a) ==
    sum([i \in DOMAIN non_root_nodes |-> a[non_root_nodes[i]].waste_var])
    + sum([i \in DOMAIN peer_ids |-> a[peer_ids[i]].waste_var])

\* the least value of a set of integers: the value Minimize reaches
minOf(values) == CHOOSE v \in values : \A w \in values : v <= w

bool_to_int(b) == IF b THEN 1 ELSE 0

total_operations(a) ==
    sum([i \in DOMAIN dfmm_nodes |-> bool_to_int(a[dfmm_nodes[i]].is_active_var)])
    + sum([i \in DOMAIN peer_ids |-> bool_to_int(a[peer_ids[i]].is_active_var)])

\* the reagent variables collected where the waste variables are, below
\* level 0 only
total_reagents_below_roots(a) ==
    sum([i \in DOMAIN non_root_nodes |-> sum(a[non_root_nodes[i]].reagent_vars)])

total_reagents(a) ==
    sum([i \in DOMAIN dfmm_nodes |-> sum(a[dfmm_nodes[i]].reagent_vars)])

objective(a, mode) ==
    IF mode = "waste" THEN total_waste(a)
    ELSE IF mode = "operations" THEN total_operations(a)
    ELSE total_reagents(a)

----------------------------------------------------------------------------
(* reporting/reporter.py: SolutionReporter.analyze_solution *)

\* the nodes the report counts, were they the nodes whose activity flag is
\* set
reported_if_active(a, ids) == SelectSeq(ids, LAMBDA id : a[id].is_active_var)

\* the nodes the report counts: total_input is not 0
reported(a, ids) == SelectSeq(ids, LAMBDA id : a[id].total_input_var # 0)

\* 'waste_var' in node, were the waste variable of the peer nodes left out
has_waste_var_dfmm_only(id) == id[1] # R /\ id[2] # 0

\* 'waste_var' in node: set by _set_objective_function for the non-root
\* DFMM nodes and for the peer nodes
has_waste_var(id) == id[1] = R \/ id[2] # 0

\* the sort key of an entry of nodes_details, (target_id, level), with the
\* level doubled: a peer node has target_id -1 and level
\* (l_a + l_b) / 2.0 - 0.5
details_key(id) ==
    IF id[1] = R
    THEN <<-1, peer_of(id).source_a_id[2] + peer_of(id).source_b_id[2] - 1>>
    ELSE <<id[1], 2 * id[2]>>

\* results["nodes_details"].sort(key=...): a stable sort
sort_details(ids) ==
    LET before(k, j) ==
            \/ details_key(ids[k])[1] < details_key(ids[j])[1]
            \/ /\ details_key(ids[k])[1] = details_key(ids[j])[1]
               /\ details_key(ids[k])[2] < details_key(ids[j])[2]
            \/ /\ details_key(ids[k]) = details_key(ids[j])
               /\ k < j
        rank(j) == Cardinality({k \in DOMAIN ids : before(k, j)})
    IN [i \in DOMAIN ids |-> ids[CHOOSE j \in DOMAIN ids : rank(j) = i - 1]]

analyze_solution(a) ==
    LET nodes == reported(a, dfmm_nodes)
        peers == reported(a, peer_ids)
        details == sort_details(nodes \o peers)
        usage(r_idx) == sum([i \in DOMAIN nodes |-> a[nodes[i]].reagent_vars[r_idx]])
        wasted == SelectSeq(nodes \o peers, has_waste_var)
    IN [total_operations |-> Len(nodes) + Len(peers),
        total_reagent_units |-> sum([r_idx \in 1..num_reagents |-> usage(r_idx)]),
        total_waste |-> sum([i \in DOMAIN wasted |-> a[wasted[i]].waste_var]),
        reagent_usage |-> [r_idx \in {r \in 1..num_reagents : usage(r) > 0} |-> usage(r_idx)],
        nodes_details |-> [i \in DOMAIN details |->
            [id |-> details[i],
             total_input |-> a[details[i]].total_input_var,
             ratio_composition |-> a[details[i]].ratio_vars]]]

----------------------------------------------------------------------------
(* Inputs: the target lists of a run *)

RECURSIVE FactorLists(_)
FactorLists(S) ==
    IF S = 1 THEN {<<>>}
    ELSE UNION {{<<d>> \o r : r \in FactorLists(S \div d)} :
                d \in {x \in 2..MAX_MIXER_SIZE : S % x = 0}}

\* the ratio vectors of n reagents with sum S, largest ratio first: the
\* construction reads a ratio vector through the sums of its remainders
\* and the constraints are the same for every reagent index
RECURSIVE RatioVectors(_, _, _)
RatioVectors(n, S, cap) ==
    IF n = 0 THEN (IF S = 0 THEN {<<>>} ELSE {})
    ELSE UNION {{<<v>> \o r : r \in RatioVectors(n - 1, S - v, v)} : v \in 0..min2(S, cap)}

\* Target invariant of the data model: product(factors) == sum(ratios)
ValidTargets(n, S) ==
    {[ratios |-> r, factors |-> f] : r \in RatioVectors(n, S, S), f \in FactorLists(S)}

RECURSIVE TargetLists(_, _, _)
TargetLists(n, budget, count) ==
    IF count = 0 THEN {<<>>}
    ELSE {<<>>} \cup
         UNION {UNION {{<<t>> \o rest : rest \in TargetLists(n, budget - S, count - 1)} :
                       t \in ValidTargets(n, S)} : S \in 2..budget}

ConfigValues == {None} \cup 0..MaxConfigValue

OptimizationModes == {"waste", "operations", "reagents"}

----------------------------------------------------------------------------
(* The run: BaseRunner._run_single_optimization *)

Init ==
    /\ pc = "start"
    /\ cfg \in [MAX_LEVEL_DIFF : ConfigValues, MAX_SHARING_VOLUME : ConfigValues]
    /\ \E n \in 2..MaxReagents :
          targets_config \in TargetLists(n, MaxTotalSum, MaxTargets) \ {<<>>}
    /\ tree_structures = <<>>
    /\ p_values = <<>>
    /\ forest = <<>>
    /\ peer_nodes = <<>>
    /\ potential_sources_map = <<>>
    /\ sharing_vars = <<>>
    /\ objective_mode = None
    /\ solution = <<>>
    /\ best_value = None
    /\ analysis = <<>>
    /\ status = "UNKNOWN"
    /\ ff = [pc |-> "idle"]
    /\ runner = [pc |-> "none"]
    /\ previous = [executions |-> 0]

BuildForest ==
    /\ pc = "start"
    /\ tree_structures' = build_dfmm_forest(targets_config)
    /\ pc' = "forest"
    /\ UNCHANGED <<cfg, targets_config, p_values, forest, peer_nodes, potential_sources_map,
                   sharing_vars, objective_mode, solution, best_value, analysis, status, ff, previous, runner>>

CalculatePValues ==
    /\ pc = "forest"
    /\ p_values' = calculate_p_values_from_structure(tree_structures, targets_config)
    /\ pc' = "p_values"
    /\ UNCHANGED <<cfg, targets_config, tree_structures, forest, peer_nodes, potential_sources_map,
                   sharing_vars, objective_mode, solution, best_value, analysis, status, ff, previous, runner>>

\* MTWMProblem.__init__
DefineProblem ==
    /\ pc = "p_values"
    /\ forest' = define_base_variables(tree_structures)
    /\ peer_nodes' = define_peer_mixing_nodes(targets_config, forest', p_values)
    /\ potential_sources_map' =
          precompute_potential_sources_v2(targets_config, forest', p_values,
                                          peer_nodes', cfg.MAX_LEVEL_DIFF)
    /\ sharing_vars' = define_sharing_variables(forest', potential_sources_map')
    /\ pc' = "problem"
    /\ UNCHANGED <<cfg, targets_config, tree_structures, p_values, objective_mode,
                   solution, best_value, analysis, status, ff, previous, runner>>

\* OrToolsSolver.__init__: _set_variables_and_constraints
Compile ==
    /\ pc = "problem"
    /\ pc' = IF compiles THEN "compiled" ELSE "error"
    /\ UNCHANGED <<cfg, targets_config, tree_structures, p_values, forest, peer_nodes,
                   potential_sources_map, sharing_vars, objective_mode, solution, best_value, analysis, status, ff, previous, runner>>

\* what OrToolsSolver.solve can return: status INFEASIBLE without a
\* solution, or a satisfying assignment with its objective value, status
\* OPTIMAL when no assignment has a smaller value and FEASIBLE otherwise.
\* Checkpointing is off (config.ENABLE_CHECKPOINTING), so nothing bounds
\* the objective.
solve_outcomes ==
    LET found == satisfying_assignments
        minimum == [waste |-> minOf({objective(a, "waste") : a \in found}),
                    operations |-> minOf({objective(a, "operations") : a \in found}),
                    reagents |-> minOf({objective(a, "reagents") : a \in found})]
    IN IF found = {}
       THEN {[status |-> "INFEASIBLE"]}
       ELSE {[status |-> IF objective(a, mode) = minimum[mode] THEN "OPTIMAL" ELSE "FEASIBLE",
              objective_mode |-> mode,
              best_model |-> a,
              best_value |-> objective(a, mode)] : a \in found, mode \in OptimizationModes}

\* OrToolsSolver.solve: cp_model Solve, then analyze_solution on a solution
Solve ==
    /\ pc = "compiled"
    /\ \E outcome \in solve_outcomes :
          /\ IF outcome.status = "INFEASIBLE" THEN TRUE
             ELSE IF runner.pc = "none" THEN TRUE
             ELSE outcome.objective_mode = runner.OPTIMIZATION_MODE
          /\ status' = outcome.status
          /\ IF outcome.status = "INFEASIBLE"
             THEN /\ pc' = "no_solution"
                  /\ UNCHANGED <<objective_mode, solution, best_value, analysis>>
             ELSE /\ pc' = "solved"
                  /\ objective_mode' = outcome.objective_mode
                  /\ solution' = outcome.best_model
                  /\ best_value' = outcome.best_value
                  /\ analysis' = analyze_solution(outcome.best_model)
    /\ UNCHANGED <<cfg, targets_config, tree_structures, p_values, forest, peer_nodes,
                   potential_sources_map, sharing_vars, ff, previous, runner>>

----------------------------------------------------------------------------
(* A call of find_factors_for_sum(ratio_sum, max_factor) *)

idle ==
    /\ pc = "idle"
    /\ cfg = <<>>
    /\ targets_config = <<>>
    /\ tree_structures = <<>>
    /\ p_values = <<>>
    /\ forest = <<>>
    /\ peer_nodes = <<>>
    /\ potential_sources_map = <<>>
    /\ sharing_vars = <<>>
    /\ objective_mode = None
    /\ solution = <<>>
    /\ best_value = None
    /\ analysis = <<>>
    /\ status = "UNKNOWN"
    /\ runner = [pc |-> "none"]
    /\ previous = [executions |-> 0]

InitFactors ==
    /\ idle
    /\ \E ratio_sum \in 0..MaxRatioSum, max_factor \in 1..MaxFactorArg :
          ff = [pc |-> "call", ratio_sum |-> ratio_sum, max_factor |-> max_factor,
                n |-> ratio_sum, factors |-> <<>>, result |-> <<>>]

\* if ratio_sum <= 1: return []
FactorsEnter ==
    /\ ff.pc = "call"
    /\ ff' = IF ff.ratio_sum <= 1
             THEN [ff EXCEPT !.pc = "returned", !.result = <<>>]
             ELSE [ff EXCEPT !.pc = "while"]
    /\ UNCHANGED <<pc, cfg, targets_config, tree_structures, p_values, forest, peer_nodes,
                   potential_sources_map, sharing_vars, objective_mode, solution,
                   best_value, analysis, status, runner, previous>>

\* one pass of while n > 1: divide by the first divisor, or return None
FactorsDivide ==
    /\ ff.pc = "while"
    /\ ff.n > 1
    /\ LET d == first_divisor(ff.n, ff.max_factor)
       IN ff' = IF d = None
                THEN [ff EXCEPT !.pc = "returned_None"]
                ELSE [ff EXCEPT !.factors = Append(@, d), !.n = @ \div d]
    /\ UNCHANGED <<pc, cfg, targets_config, tree_structures, p_values, forest, peer_nodes,
                   potential_sources_map, sharing_vars, objective_mode, solution,
                   best_value, analysis, status, runner, previous>>

\* return sorted(factors, reverse=True)
FactorsReturn ==
    /\ ff.pc = "while"
    /\ ff.n <= 1
    /\ ff' = [ff EXCEPT !.pc = "returned", !.result = sorted_reverse(ff.factors)]
    /\ UNCHANGED <<pc, cfg, targets_config, tree_structures, p_values, forest, peer_nodes,
                   potential_sources_map, sharing_vars, objective_mode, solution,
                   best_value, analysis, status, runner, previous>>

NextFactors == FactorsEnter \/ FactorsDivide \/ FactorsReturn

SpecFactors == InitFactors /\ [][NextFactors]_vars

----------------------------------------------------------------------------
(* A call of generate_unique_permutations(factors) *)

RECURSIVE ListsUpTo(_, _)
ListsUpTo(values, n) ==
    IF n = 0 THEN {<<>>}
    ELSE ListsUpTo(values, n - 1)
         \cup {Append(l, v) : l \in {x \in ListsUpTo(values, n - 1) : Len(x) = n - 1},
                              v \in values}

InitPermutations ==
    /\ idle
    /\ \E factors \in ListsUpTo(2..MAX_MIXER_SIZE, MaxPermLen) :
          ff = [pc |-> "perm_call", factors |-> factors, result |-> <<>>]

PermutationsReturn ==
    /\ ff.pc = "perm_call"
    /\ ff' = [ff EXCEPT !.pc = "perm_returned",
                        !.result = generate_unique_permutations(ff.factors)]
    /\ UNCHANGED <<pc, cfg, targets_config, tree_structures, p_values, forest, peer_nodes,
                   potential_sources_map, sharing_vars, objective_mode, solution,
                   best_value, analysis, status, runner, previous>>

SpecPermutations == InitPermutations /\ [][PermutationsReturn]_vars

----------------------------------------------------------------------------
(* The problem definition alone: the forest, the P-values, MTWMProblem *)

NextProblem == BuildForest \/ CalculatePValues \/ DefineProblem

SpecProblem == Init /\ [][NextProblem]_vars

-----------------------------------------------------------------------------
(* Two executions on the same target list and the same bounds: what the    *)
(* first one built is kept aside and the construction is run once more     *)

built ==
    [executions |-> previous.executions + 1,
     tree_structures |-> tree_structures,
     p_values |-> p_values,
     forest |-> forest,
     peer_nodes |-> peer_nodes,
     potential_sources_map |-> potential_sources_map,
     sharing_vars |-> sharing_vars,
     variables |-> declared_variables(targets_config, forest, peer_nodes, sharing_vars)]

ExecuteAgain ==
    /\ pc = "problem"
    /\ previous.executions = 0
    /\ previous' = built
    /\ pc' = "start"
    /\ tree_structures' = <<>>
    /\ p_values' = <<>>
    /\ forest' = <<>>
    /\ peer_nodes' = <<>>
    /\ potential_sources_map' = <<>>
    /\ sharing_vars' = <<>>
    /\ UNCHANGED <<cfg, targets_config, objective_mode, solution, best_value, analysis,
                   status, ff, runner>>

NextTwice == BuildForest \/ CalculatePValues \/ DefineProblem \/ ExecuteAgain

SpecTwice == Init /\ [][NextTwice]_vars

----------------------------------------------------------------------------
(* The whole run *)

Next ==
    \/ BuildForest
    \/ CalculatePValues
    \/ DefineProblem
    \/ Compile
    \/ Solve

Spec == Init /\ [][Next]_vars

----------------------------------------------------------------------------
(* The run on the target ratios [1, 8, 9] with factors [3, 3, 2] *)

ExampleTarget == [ratios |-> <<1, 8, 9>>, factors |-> <<3, 3, 2>>]

\* the bounds tried on the example: None, and 0 up to the depth of its tree
ExampleConfigValues == {None} \cup 0..MaxExampleConfigValue

InitExample ==
    /\ pc = "start"
    /\ cfg \in [MAX_LEVEL_DIFF : ExampleConfigValues, MAX_SHARING_VOLUME : ExampleConfigValues]
    /\ targets_config = <<ExampleTarget>>
    /\ tree_structures = <<>>
    /\ p_values = <<>>
    /\ forest = <<>>
    /\ peer_nodes = <<>>
    /\ potential_sources_map = <<>>
    /\ sharing_vars = <<>>
    /\ objective_mode = None
    /\ solution = <<>>
    /\ best_value = None
    /\ analysis = <<>>
    /\ status = "UNKNOWN"
    /\ ff = [pc |-> "idle"]
    /\ runner = [pc |-> "none"]
    /\ previous = [executions |-> 0]

SpecExample == InitExample /\ [][Next]_vars

----------------------------------------------------------------------------
(* The run in mode 'manual': the factors are taken from the configuration *)
(* as they are written, whether or not their product is the ratio sum     *)

product_matches(target) == prod(target.factors) = sum(target.ratios)

ManualTargets(n) ==
    UNION {{[ratios |-> r, factors |-> f] :
               r \in RatioVectors(n, S, S),
               f \in UNION {FactorLists(P) : P \in 2..MaxTotalSum}} : S \in 2..MaxTotalSum}

InitManual ==
    /\ pc = "start"
    /\ cfg \in [MAX_LEVEL_DIFF : ConfigValues, MAX_SHARING_VOLUME : {None}]
    /\ \E n \in 2..MaxReagents : \E target \in ManualTargets(n) :
          targets_config = <<target>>
    /\ tree_structures = <<>>
    /\ p_values = <<>>
    /\ forest = <<>>
    /\ peer_nodes = <<>>
    /\ potential_sources_map = <<>>
    /\ sharing_vars = <<>>
    /\ objective_mode = None
    /\ solution = <<>>
    /\ best_value = None
    /\ analysis = <<>>
    /\ status = "UNKNOWN"
    /\ ff = [pc |-> "idle"]
    /\ runner = [pc |-> "none"]
    /\ previous = [executions |-> 0]

SpecManual == InitManual /\ [][Next]_vars

-----------------------------------------------------------------------------
(* The problem definition for a tree of four levels next to a small tree:  *)
(* the smallest forests in which a node below the root of one tree has a   *)
(* P-value that divides the unit of a deeper node of the other tree        *)

DeepFactors == <<2, 2, 2, 2>>

DeepTargets ==
    {[ratios |-> r, factors |-> DeepFactors] :
        r \in RatioVectors(2, prod(DeepFactors), prod(DeepFactors))}

SmallTargets == UNION {ValidTargets(2, S) : S \in 2..MaxSmallSum}

InitDeep ==
    /\ pc = "start"
    /\ cfg \in [MAX_LEVEL_DIFF : ConfigValues, MAX_SHARING_VOLUME : {None}]
    /\ \E deep \in DeepTargets : \E small \in SmallTargets :
          targets_config = <<deep, small>>
    /\ tree_structures = <<>>
    /\ p_values = <<>>
    /\ forest = <<>>
    /\ peer_nodes = <<>>
    /\ potential_sources_map = <<>>
    /\ sharing_vars = <<>>
    /\ objective_mode = None
    /\ solution = <<>>
    /\ best_value = None
    /\ analysis = <<>>
    /\ status = "UNKNOWN"
    /\ ff = [pc |-> "idle"]
    /\ runner = [pc |-> "none"]
    /\ previous = [executions |-> 0]

SpecDeep == InitDeep /\ [][NextProblem]_vars

-----------------------------------------------------------------------------
(* The problem definition for one target with a ratio sum above            *)
(* MaxTotalSum: the smallest trees in which two nodes of a level are       *)
(* attached to two nodes of the level above                                *)

WideTargets ==
    UNION {ValidTargets(MaxReagents, S) : S \in (MaxTotalSum + 1)..MaxWideSum}

InitWide ==
    /\ pc = "start"
    /\ cfg \in [MAX_LEVEL_DIFF : ConfigValues, MAX_SHARING_VOLUME : {None}]
    /\ \E target \in WideTargets : targets_config = <<target>>
    /\ tree_structures = <<>>
    /\ p_values = <<>>
    /\ forest = <<>>
    /\ peer_nodes = <<>>
    /\ potential_sources_map = <<>>
    /\ sharing_vars = <<>>
    /\ objective_mode = None
    /\ solution = <<>>
    /\ best_value = None
    /\ analysis = <<>>
    /\ status = "UNKNOWN"
    /\ ff = [pc |-> "idle"]
    /\ runner = [pc |-> "none"]
    /\ previous = [executions |-> 0]

SpecWide == InitWide /\ [][NextProblem]_vars

----------------------------------------------------------------------------
(* runners: StandardRunner ('auto', 'manual'), PermutationRunner          *)
(* ('auto_permutations'), RandomRunner ('random') and FileLoadRunner      *)
(* ('file_load').  runner.pc is the position in run(): "begin", "loop"    *)
(* between two runs, "in_run" inside _run_single_optimization, "raised"   *)
(* when an exception has left run(), "done" when run() has returned.      *)

\* the targets of a batch have two reagents
BatchReagents == 2

BatchRatios == UNION {RatioVectors(BatchReagents, S, S) : S \in 2..MaxBatchSum}

BatchTargets == UNION {ValidTargets(BatchReagents, S) : S \in 2..MaxBatchSum}

\* generate_random_ratios(reagent_count, ratio_sum): ratios without a zero,
\* in any order; empty when it raises ValueError (ratio_sum < reagent_count)
generate_random_ratios(reagent_count, ratio_sum) ==
    {r \in [1..reagent_count -> 1..ratio_sum] : sum(r) = ratio_sum}

\* itertools.product(*lists): the first list varies slowest
RECURSIVE product(_)
product(lists) ==
    IF lists = <<>> THEN <<<<>>>>
    ELSE LET rest == product(Tail(lists))
         IN Concat([i \in DOMAIN Head(lists) |->
                [j \in DOMAIN rest |-> <<Head(lists)[i]>> \o rest[j]]])

\* base_factors_of without the test of its result against None: a sum
\* without factors goes on with the factors found so far
base_factors_of_unchecked(targets) ==
    [i \in DOMAIN targets |->
        [found |-> TRUE,
         factors |-> find_factors_for_sum(sum(targets[i].ratios), MAX_MIXER_SIZE).factors]]

\* find_factors_for_sum(sum(target['ratios']), MAX_MIXER_SIZE) of every target
base_factors_of(targets) ==
    [i \in DOMAIN targets |-> find_factors_for_sum(sum(targets[i].ratios), MAX_MIXER_SIZE)]

with_factors(targets, factors) ==
    [i \in DOMAIN targets |-> [ratios |-> targets[i].ratios, factors |-> factors[i]]]

new_runner(mode, opt, base) ==
    [MODE |-> mode, OPTIMIZATION_MODE |-> opt, pc |-> "begin", base |-> base,
     pending |-> <<>>, run_idx |-> 0, started |-> 0, skipped |-> 0,
     all_run_results |-> <<>>, exception |-> "", returned |-> <<>>]

\* a target of TARGETS_FOR_AUTO_MODE: its factors are still to be derived
auto_target(ratios) == [ratios |-> ratios, factors |-> <<>>]

\* base is the list of the target lists the configuration holds: one list
\* for the modes of config.py, one per run for a loaded file, none for
\* 'random'
RunnerInputs ==
    UNION {
       {new_runner("auto", opt, <<<<auto_target(r)>>>>) : r \in BatchRatios}
       \cup {new_runner("manual", opt, <<<<t>>>>) : t \in BatchTargets}
       \cup {new_runner("auto_permutations", opt, <<<<auto_target(r)>>>>) : r \in BatchRatios}
       \cup {new_runner("random", opt, <<>>)}
       \cup {new_runner("file_load", opt, <<<<t>>>>) : t \in BatchTargets}
       \cup {new_runner("file_load", opt, <<<<t1>>, <<t2>>>>) :
                t1 \in BatchTargets, t2 \in BatchTargets}
       : opt \in OptimizationModes}

InitBatch ==
    /\ pc = "not_started"
    /\ cfg \in [MAX_LEVEL_DIFF : ConfigValues, MAX_SHARING_VOLUME : {None}]
    /\ targets_config = <<>>
    /\ tree_structures = <<>>
    /\ p_values = <<>>
    /\ forest = <<>>
    /\ peer_nodes = <<>>
    /\ potential_sources_map = <<>>
    /\ sharing_vars = <<>>
    /\ objective_mode = None
    /\ solution = <<>>
    /\ best_value = None
    /\ analysis = <<>>
    /\ status = "UNKNOWN"
    /\ ff = [pc |-> "idle"]
    /\ runner \in RunnerInputs
    /\ previous = [executions |-> 0]

\* the variables of one run stay as they are
run_unchanged ==
    UNCHANGED <<pc, cfg, targets_config, tree_structures, p_values, forest, peer_nodes,
                potential_sources_map, sharing_vars, objective_mode, solution,
                best_value, analysis, status, ff, previous>>

\* StandardRunner.run up to the call of _run_single_optimization
StandardPrepare ==
    /\ runner.pc = "begin"
    /\ runner.MODE \in {"auto", "manual"}
    /\ LET targets_config_base == runner.base[1]
           factors == base_factors_of(targets_config_base)
       IN runner' =
            IF runner.MODE = "manual"
            THEN [runner EXCEPT !.pc = "loop", !.pending = <<targets_config_base>>]
            ELSE IF \E i \in DOMAIN factors : ~factors[i].found
            THEN [runner EXCEPT !.pc = "raised", !.exception = "ValueError"]
            ELSE [runner EXCEPT !.pc = "loop",
                    !.pending = <<with_factors(targets_config_base,
                                     [i \in DOMAIN factors |-> factors[i].factors])>>]
    /\ run_unchanged

\* PermutationRunner.run up to its loop over all_config_combinations
PermutationPrepare ==
    /\ runner.pc = "begin"
    /\ runner.MODE = "auto_permutations"
    /\ LET targets_config_base == runner.base[1]
           factors == base_factors_of(targets_config_base)
           target_perms_options ==
              [i \in DOMAIN factors |-> generate_unique_permutations(factors[i].factors)]
           all_config_combinations == product(target_perms_options)
       IN runner' =
            IF \E i \in DOMAIN factors : ~factors[i].found
            THEN [runner EXCEPT !.pc = "raised", !.exception = "ValueError"]
            ELSE [runner EXCEPT !.pc = "loop",
                    !.pending = [c \in DOMAIN all_config_combinations |->
                                   with_factors(targets_config_base,
                                                all_config_combinations[c])]]
    /\ run_unchanged

\* RandomRunner.run up to its loop, FileLoadRunner.run up to its loop
LoopPrepare ==
    /\ runner.pc = "begin"
    /\ runner.MODE \in {"random", "file_load"}
    /\ runner' = IF runner.MODE = "file_load"
                 THEN [runner EXCEPT !.pc = "loop", !.pending = runner.base]
                 ELSE [runner EXCEPT !.pc = "loop"]
    /\ run_unchanged

\* the entry of _run_single_optimization(targets): a new run, with nothing
\* built yet
enter_run(targets) ==
    /\ targets_config' = targets
    /\ pc' = "start"
    /\ tree_structures' = <<>>
    /\ p_values' = <<>>
    /\ forest' = <<>>
    /\ peer_nodes' = <<>>
    /\ potential_sources_map' = <<>>
    /\ sharing_vars' = <<>>
    /\ objective_mode' = None
    /\ solution' = <<>>
    /\ best_value' = None
    /\ analysis' = <<>>
    /\ status' = "UNKNOWN"
    /\ UNCHANGED <<cfg, ff, previous>>

\* the call of _run_single_optimization on the next configuration
StartRun ==
    /\ runner.pc = "loop"
    /\ runner.MODE # "random"
    /\ runner.pending # <<>>
    /\ enter_run(Head(runner.pending))
    /\ runner' = [runner EXCEPT !.pc = "in_run", !.pending = Tail(@),
                                !.run_idx = @ + 1, !.started = @ + 1]

\* one pass of RandomRunner's loop with one target per run and a whole
\* number as its S_ratio_sum: the scenario is drawn, and the run is skipped
\* (continue) when no ratios or no factors can be had for it
RandomIteration ==
    /\ runner.pc = "loop"
    /\ runner.MODE = "random"
    /\ runner.run_idx < RANDOM_K_RUNS
    /\ \E base_sum \in 1..MaxBatchSum :
          LET candidates == generate_random_ratios(BatchReagents, base_sum)
              base_factors == find_factors_for_sum(base_sum, MAX_MIXER_SIZE)
          IN IF base_sum < BatchReagents \/ ~base_factors.found
             THEN /\ runner' = [runner EXCEPT !.run_idx = @ + 1, !.skipped = @ + 1]
                  /\ run_unchanged
             ELSE \E ratios \in candidates :
                     /\ enter_run(<<[ratios |-> ratios, factors |-> base_factors.factors]>>)
                     /\ runner' = [runner EXCEPT !.pc = "in_run", !.run_idx = @ + 1,
                                                 !.started = @ + 1]

\* run_result with a number in the place of the None that solve returns
\* for best_value (final_value or 0)
run_result_zero ==
    [final_value |-> IF best_value = None THEN 0 ELSE best_value,
     total_operations |-> IF pc = "solved" THEN analysis.total_operations ELSE NA,
     total_reagents |-> IF pc = "solved" THEN analysis.total_reagent_units ELSE NA]

\* return final_value, elapsed_time, ops, reagents
run_result ==
    [final_value |-> best_value,
     total_operations |-> IF pc = "solved" THEN analysis.total_operations ELSE NA,
     total_reagents |-> IF pc = "solved" THEN analysis.total_reagent_units ELSE NA]

\* _run_single_optimization returns, with or without a solution.  The
\* callers other than RandomRunner take its four values and record them;
\* RandomRunner unpacks them into five names, which raises ValueError
ReturnRun ==
    /\ runner.pc = "in_run"
    /\ pc \in {"solved", "no_solution"}
    /\ pc' = "returned"
    /\ runner' =
          IF runner.MODE = "random"
          THEN [runner EXCEPT !.pc = "raised", !.exception = "ValueError",
                              !.returned = run_result]
          ELSE [runner EXCEPT !.pc = "loop", !.returned = run_result,
                              !.all_run_results =
                                  Append(@, [targets |-> targets_config] @@ run_result)]
    /\ UNCHANGED <<cfg, targets_config, tree_structures, p_values, forest, peer_nodes,
                   potential_sources_map, sharing_vars, objective_mode, solution,
                   best_value, analysis, status, ff, previous>>

\* an exception of OrToolsSolver.__init__ leaves _run_single_optimization
\* and, no runner catching it, run()
RaiseRun ==
    /\ runner.pc = "in_run"
    /\ pc = "error"
    /\ pc' = "raised"
    /\ runner' = [runner EXCEPT !.pc = "raised", !.exception = "solver"]
    /\ UNCHANGED <<cfg, targets_config, tree_structures, p_values, forest, peer_nodes,
                   potential_sources_map, sharing_vars, objective_mode, solution,
                   best_value, analysis, status, ff, previous>>

\* the loop is over: the summary of all_run_results is saved, run() returns
FinishBatch ==
    /\ runner.pc = "loop"
    /\ IF runner.MODE = "random" THEN runner.run_idx = RANDOM_K_RUNS
       ELSE runner.pending = <<>>
    /\ runner' = [runner EXCEPT !.pc = "done"]
    /\ run_unchanged

NextBatch ==
    \/ StandardPrepare
    \/ PermutationPrepare
    \/ LoopPrepare
    \/ StartRun
    \/ RandomIteration
    \/ BuildForest
    \/ CalculatePValues
    \/ DefineProblem
    \/ Compile
    \/ Solve
    \/ ReturnRun
    \/ RaiseRun
    \/ FinishBatch

SpecBatch == InitBatch /\ [][NextBatch]_vars

----------------------------------------------------------------------------
(* Properties of the problem definition *)

problem_defined == pc \notin {"idle", "start", "forest", "p_values"}

\* every candidate source: the DFMM nodes and the peer nodes
candidate_sources == Range(all_sources(forest, peer_nodes))

\* effective level of a source: its level, or for a peer node the larger
\* of the levels of its two sources
effective_level(src) ==
    IF src[1] = R
    THEN max2(peer_of(src).source_a_id[2], peer_of(src).source_b_id[2])
    ELSE src[2]

rule_not_itself(dst, src) == src # dst

rule_level_order(dst, src) ==
    effective_level(src) > dst[2] \/ effective_level(src) = 0

rule_level_diff(dst, src) ==
    cfg.MAX_LEVEL_DIFF # None => effective_level(src) <= dst[2] + cfg.MAX_LEVEL_DIFF

rule_divisibility(dst, src) == (node_p(dst) \div node_f(dst)) % source_p(src) = 0

passes_all_rules(dst, src) ==
    /\ rule_not_itself(dst, src)
    /\ rule_level_order(dst, src)
    /\ rule_level_diff(dst, src)
    /\ rule_divisibility(dst, src)

is_candidate(dst, src) == src \in Range(sources_of(potential_sources_map, dst))

\* C1: the candidate map holds a pair (destination DFMM node, source) if
\* and only if the pair passes the four rules: the source is not the
\* destination, its effective level is above the destination's level or is
\* 0, it is within MAX_LEVEL_DIFF levels when that is configured, and
\* (p_dst // f_dst) % p_src == 0.  Only destinations with a candidate are
\* keys of the map and no source is listed twice.
C1_CandidatesIffRules ==
    problem_defined =>
        /\ \A dst \in Range(dfmm_nodes) : \A src \in candidate_sources :
              is_candidate(dst, src) <=> passes_all_rules(dst, src)
        /\ \A dst \in DOMAIN potential_sources_map :
              /\ dst \in Range(dfmm_nodes)
              /\ Range(potential_sources_map[dst]) \subseteq candidate_sources
              /\ Cardinality(Range(potential_sources_map[dst]))
                    = Len(potential_sources_map[dst])

\* C1 witness: a problem with a DFMM candidate, a peer candidate, a pair
\* that only the divisibility rule removes and a pair that only the
\* MAX_LEVEL_DIFF rule removes
C1_Witness ==
    /\ problem_defined
    /\ \E dst \in Range(dfmm_nodes) : \E src \in candidate_sources :
          src[1] = R /\ is_candidate(dst, src)
    /\ \E dst \in Range(dfmm_nodes) : \E src \in candidate_sources :
          src[1] # R /\ is_candidate(dst, src)
    /\ \E dst \in Range(dfmm_nodes) : \E src \in candidate_sources :
          /\ rule_not_itself(dst, src) /\ rule_level_order(dst, src)
          /\ ~rule_level_diff(dst, src) /\ rule_divisibility(dst, src)
    /\ \E dst \in Range(dfmm_nodes) : \E src \in candidate_sources :
          /\ rule_not_itself(dst, src) /\ rule_level_order(dst, src)
          /\ rule_level_diff(dst, src) /\ ~rule_divisibility(dst, src)

is_leaf(n) == node_p(n) = node_f(n)

\* the pairs the peer discovery is to keep
peer_eligible(a, b) ==
    /\ a # b
    /\ a[2] >= 1 /\ b[2] >= 1
    /\ node_p(a) = node_p(b)
    /\ ~(is_leaf(a) /\ is_leaf(b))

peer_sources(i) == {peer_nodes[i].source_a_id, peer_nodes[i].source_b_id}

\* C2: the peer list holds exactly one peer node for every unordered pair
\* of distinct DFMM nodes at level >= 1 with equal P-values that are not
\* both leaves (p_value == factor), and nothing else: no peer node has a
\* level-0 source, unequal source P-values or two leaf sources, and no pair
\* is listed twice.  A peer node carries the P-value of its sources.
C2_PeerNodesExactlyEligiblePairs ==
    problem_defined =>
        /\ \A a \in Range(dfmm_nodes) : \A b \in Range(dfmm_nodes) :
              peer_eligible(a, b) =>
                 Cardinality({i \in DOMAIN peer_nodes : peer_sources(i) = {a, b}}) = 1
        /\ \A i \in DOMAIN peer_nodes :
              /\ peer_nodes[i].source_a_id \in Range(dfmm_nodes)
              /\ peer_nodes[i].source_b_id \in Range(dfmm_nodes)
              /\ peer_eligible(peer_nodes[i].source_a_id, peer_nodes[i].source_b_id)
              /\ peer_nodes[i].p_value = node_p(peer_nodes[i].source_a_id)

\* C2 witness: a problem with a peer node, next to pairs of distinct
\* non-root nodes that the P-value test keeps out of the list
C2_Witness ==
    /\ problem_defined
    /\ peer_nodes # <<>>
    /\ \E a \in Range(dfmm_nodes) : \E b \in Range(dfmm_nodes) :
          a # b /\ a[2] >= 1 /\ b[2] >= 1 /\ node_p(a) # node_p(b)

----------------------------------------------------------------------------
(* Properties of the forest and of the P-values *)

p_values_known == pc \notin {"idle", "start", "forest"}

\* the level-0 nodes of the tree of target i (position i of the lists)
roots_of(i) == {id \in DOMAIN tree_structures[i] : id[1] = 0}

\* C3: for every target with product(factors) == sum(ratios) the built
\* tree has exactly one level-0 node, and the P-value of that root is
\* sum(ratios)
C3_OneRootWithPEqualRatioSum ==
    p_values_known =>
        \A i \in DOMAIN targets_config :
            /\ Cardinality(roots_of(i)) = 1
            /\ \A id \in roots_of(i) : p_values[i][id] = sum(targets_config[i].ratios)

\* C3, the part that holds: a tree has at most one level-0 node and the
\* P-value of a root is sum(ratios); the tree has a root unless only one
\* reagent of the target has a non-zero ratio
C3_RootUnlessSingleReagent ==
    p_values_known =>
        \A i \in DOMAIN targets_config :
            /\ Cardinality(roots_of(i)) <= 1
            /\ \A id \in roots_of(i) : p_values[i][id] = sum(targets_config[i].ratios)
            /\ roots_of(i) = {} <=>
                  Cardinality({t \in DOMAIN targets_config[i].ratios :
                                  targets_config[i].ratios[t] # 0}) <= 1

\* C3 witness: a target with a single non-zero ratio next to a target with
\* a root, after the solver rejected the problem
C3_Witness ==
    /\ pc = "error"
    /\ \E i \in DOMAIN targets_config : roots_of(i) = {}
    /\ \E i \in DOMAIN targets_config : roots_of(i) # {}

has_children(i, id) == tree_structures[i][id] # <<>>

deepest_level(i) == Len(targets_config[i].factors) - 1

\* C4 as stated: for every node p_value >= factor of its level, and
\* p_value == factor if and only if the node has no children
C4_PEqualFactorIffNoChildren ==
    p_values_known =>
        \A i \in DOMAIN tree_structures : \A id \in DOMAIN tree_structures[i] :
            /\ p_values[i][id] >= targets_config[i].factors[id[1] + 1]
            /\ p_values[i][id] = targets_config[i].factors[id[1] + 1]
                  <=> ~has_children(i, id)

\* C4 amended: for every node p_value >= factor of its level, and
\* p_value == factor if and only if the node is on the deepest level of
\* its tree; such a node has no children, and a childless node on a higher
\* level has p_value == product(factors[level:]), larger than its factor
C4_PEqualFactorIffDeepestLevel ==
    p_values_known =>
        \A i \in DOMAIN tree_structures : \A id \in DOMAIN tree_structures[i] :
            /\ p_values[i][id] >= targets_config[i].factors[id[1] + 1]
            /\ p_values[i][id] = targets_config[i].factors[id[1] + 1]
                  <=> id[1] = deepest_level(i)
            /\ id[1] = deepest_level(i) => ~has_children(i, id)
            /\ ~has_children(i, id) =>
                  p_values[i][id] = prod(SliceFrom(targets_config[i].factors, id[1]))

\* C4 witness: a tree with a node that has children, a childless node on
\* the deepest level and a childless node above the deepest level
C4_Witness ==
    /\ p_values_known
    /\ \E i \in DOMAIN tree_structures :
          /\ \E id \in DOMAIN tree_structures[i] : has_children(i, id)
          /\ \E id \in DOMAIN tree_structures[i] :
                ~has_children(i, id) /\ id[1] = deepest_level(i)
          /\ \E id \in DOMAIN tree_structures[i] :
                ~has_children(i, id) /\ id[1] < deepest_level(i)

----------------------------------------------------------------------------
(* Properties of find_factors_for_sum *)

divisors_up_to(n, max_factor) == {d \in 2..max_factor : n % d = 0}

greatest(S) == CHOOSE x \in S : \A y \in S : y <= x

\* the quotients of the division by the largest divisor <= max_factor,
\* as long as there is one
RECURSIVE largest_divisor_chain(_, _)
largest_divisor_chain(n, max_factor) ==
    IF n <= 1 \/ divisors_up_to(n, max_factor) = {} THEN <<>>
    ELSE <<greatest(divisors_up_to(n, max_factor))>>
         \o largest_divisor_chain(n \div greatest(divisors_up_to(n, max_factor)), max_factor)

occurrences(s, x) == Cardinality({i \in DOMAIN s : s[i] = x})

\* C6: a successful find_factors_for_sum(ratio_sum, max_factor) with
\* ratio_sum > 1 returns a list in descending order, of elements in
\* 2..max_factor, whose product is ratio_sum and whose elements are the
\* divisors met when dividing by the largest divisor <= max_factor again
\* and again; find_factors_for_sum(18, 5) returns [3, 3, 2]
C6_FactorsDescendingGreedyProduct ==
    (ff.pc = "returned" /\ ff.ratio_sum > 1) =>
        /\ \A i \in 1..(Len(ff.result) - 1) : ff.result[i] >= ff.result[i + 1]
        /\ \A i \in DOMAIN ff.result : ff.result[i] \in 2..ff.max_factor
        /\ prod(ff.result) = ff.ratio_sum
        /\ \A x \in 2..ff.max_factor :
              occurrences(ff.result, x)
                = occurrences(largest_divisor_chain(ff.ratio_sum, ff.max_factor), x)
        /\ (ff.ratio_sum = 18 /\ ff.max_factor = 5) => ff.result = <<3, 3, 2>>

\* C6 witness: find_factors_for_sum(18, 5) has returned [3, 3, 2]
C6_Witness ==
    /\ ff.pc = "returned"
    /\ ff.ratio_sum = 18
    /\ ff.max_factor = 5
    /\ ff.result = <<3, 3, 2>>

is_prime(q) == q >= 2 /\ \A d \in 2..(q - 1) : q % d # 0

has_prime_factor_above(n, max_factor) ==
    \E q \in (max_factor + 1)..n : is_prime(q) /\ n % q = 0

\* C7: find_factors_for_sum returns None exactly when the greedy division
\* reaches a residual value > 1 without a divisor in 2..max_factor, which
\* happens if and only if ratio_sum has a prime factor greater than
\* max_factor; it returns a list when every prime factor of ratio_sum is
\* <= max_factor, and find_factors_for_sum(17, 5) returns None
C7_NoneIffPrimeFactorAboveMax ==
    /\ ff.pc = "returned_None" =>
          /\ ff.n > 1
          /\ divisors_up_to(ff.n, ff.max_factor) = {}
          /\ has_prime_factor_above(ff.ratio_sum, ff.max_factor)
    /\ ff.pc = "returned" =>
          /\ ff.n <= 1
          /\ ~has_prime_factor_above(ff.ratio_sum, ff.max_factor)
    /\ (ff.pc = "while" /\ ff.n > 1 /\ divisors_up_to(ff.n, ff.max_factor) # {}) =>
          (has_prime_factor_above(ff.ratio_sum, ff.max_factor)
             <=> has_prime_factor_above(ff.n, ff.max_factor))
    /\ (ff.ratio_sum = 17 /\ ff.max_factor = 5) => ff.pc # "returned"

\* C7 witness: find_factors_for_sum(17, 5) has returned None
C7_Witness ==
    /\ ff.pc = "returned_None"
    /\ ff.ratio_sum = 17
    /\ ff.max_factor = 5

----------------------------------------------------------------------------
(* Properties of the compiled model and of its solutions *)

has_no_sharing_vars(n) ==
    /\ sharing_vars[n].intra_sharing_vars = <<>>
    /\ sharing_vars[n].inter_sharing_vars = <<>>

input_total(a, n) ==
    sum(a[n].reagent_vars)
    + SumOver(a[n].intra_sharing_vars, DOMAIN a[n].intra_sharing_vars)
    + SumOver(a[n].inter_sharing_vars, DOMAIN a[n].inter_sharing_vars)

producers == {n \in Range(dfmm_nodes) : n[2] >= 1} \cup Range(peer_ids)

\* the destinations a source may feed: the DFMM nodes that list it as a
\* candidate and, for a DFMM source, the peer nodes that draw from it
candidate_destinations(src) ==
    {dst \in Range(dfmm_nodes) : is_candidate(dst, src)}
    \cup {id \in Range(peer_ids) :
            src[1] # R /\ src \in {peer_of(id).source_a_id, peer_of(id).source_b_id}}

\* the destinations of the variables the solver adds up as the output of src
counted_destinations(src) == {ref.node : ref \in Range(outgoing_of(src))}

\* the volume destination dst draws from source src under an assignment,
\* read under the key the problem declared for the edge
volume(a, dst, src) ==
    IF dst[1] = R
    THEN (IF peer_of(dst).source_a_id = src THEN a[dst].from_a ELSE 0)
         + (IF peer_of(dst).source_b_id = src THEN a[dst].from_b ELSE 0)
    ELSE IF src[1] = R THEN a[dst].inter_sharing_vars[create_peer_key(src[2])]
    ELSE IF src[1] = dst[1] THEN a[dst].intra_sharing_vars[create_intra_key(src[2], src[3])]
    ELSE a[dst].inter_sharing_vars[create_inter_key(src[1], src[2], src[3])]

RECURSIVE volume_sum(_, _, _)
volume_sum(a, dsts, src) ==
    IF dsts = {} THEN 0
    ELSE LET dst == CHOOSE d \in dsts : TRUE
         IN volume(a, dst, src) + volume_sum(a, dsts \ {dst}, src)

\* the sum of the outgoing sharing volumes of src: every edge counts
outgoing_volume(a, src) == volume_sum(a, candidate_destinations(src), src)

\* C9: for every non-root DFMM node and every peer node, isUsed holds if
\* and only if the sum of its outgoing sharing volumes is >= 1, and
\* isActive implies isUsed; the outgoing volumes are all the sharing
\* variables whose candidate source is the node, intra-tree, inter-tree and
\* peer input selectors alike, so the variables the model adds up for a
\* node are those of all its candidate edges
C9_LiquidMustBeUsedOnEveryEdge ==
    /\ problem_defined =>
          \A src \in producers : counted_destinations(src) = candidate_destinations(src)
    /\ pc = "solved" =>
          \A src \in producers :
              /\ solution[src].is_used <=> outgoing_volume(solution, src) >= 1
              /\ solution[src].is_active_var => solution[src].is_used

\* C9 witness: a problem in which a node of one tree is a candidate source
\* of a node of another tree, rejected by the solver's constructor
C9_Witness ==
    /\ pc = "error"
    /\ \A i \in DOMAIN targets_config : root_exists(i - 1)
    /\ \E src \in producers : \E dst \in Range(dfmm_nodes) :
          src[1] # R /\ src[1] # dst[1] /\ is_candidate(dst, src)

\* the part of C9 that holds: the edges inside a tree, the edges from a
\* peer node and the peer input selectors are all added up, and in every
\* solution isUsed <=> (sum of the outgoing volumes >= 1) and isActive =>
\* isUsed; a problem with an edge between two trees has no solution,
\* because the model of such a problem cannot be built
C9_HoldsWithoutInterTreeEdges ==
    /\ problem_defined =>
          \A src \in producers :
              /\ counted_destinations(src) \subseteq candidate_destinations(src)
              /\ \A dst \in candidate_destinations(src) \ counted_destinations(src) :
                    dst[1] # R /\ src[1] # R /\ dst[1] # src[1]
    /\ pc \in {"compiled", "solved", "no_solution"} =>
          \A src \in producers : counted_destinations(src) = candidate_destinations(src)
    /\ pc = "solved" =>
          \A src \in producers :
              /\ solution[src].is_used <=> outgoing_volume(solution, src) >= 1
              /\ solution[src].is_active_var => solution[src].is_used

\* the waste of a solution, node by node
RECURSIVE waste_of(_, _)
waste_of(a, ids) ==
    IF ids = {} THEN 0
    ELSE LET id == CHOOSE x \in ids : TRUE
         IN (a[id].total_input_var - outgoing_volume(a, id)) + waste_of(a, ids \ {id})

waste_sum(a) == waste_of(a, producers)

all_nodes == Range(dfmm_nodes) \cup Range(peer_ids)

active_nodes(a) == {id \in all_nodes : a[id].is_active_var}

fed_nodes(a) == {id \in all_nodes : a[id].total_input_var > 0}

roots == {n \in Range(dfmm_nodes) : n[2] = 0}

\* C13: in objective mode "operations" the minimised objective is the
\* number of active nodes among the DFMM nodes, roots included, and the
\* peer nodes, and for the returned solution it equals the reporter's
\* total_operations, the number of DFMM and peer nodes with totalInput > 0
C13_OperationsObjectiveIsReportedOperations ==
    (pc = "solved" /\ objective_mode = "operations" /\ status = "OPTIMAL") =>
        /\ best_value = Cardinality(active_nodes(solution))
        /\ analysis.total_operations = Cardinality(fed_nodes(solution))
        /\ best_value = analysis.total_operations

\* C13 witness: the optimum in mode "operations" of a problem with a node
\* below the root
C13_Witness ==
    /\ pc = "solved"
    /\ objective_mode = "operations"
    /\ status = "OPTIMAL"
    /\ \E n \in Range(dfmm_nodes) : n[2] >= 1 /\ solution[n].is_active_var

\* what holds of mode "operations": the objective is the number of active
\* flags and the report counts the fed nodes, but the flag of a root is
\* bound to nothing, so the optimum leaves every root's flag off and is
\* smaller than the reported total_operations by the number of trees
C13_OptimumOmitsRoots ==
    (pc = "solved" /\ objective_mode = "operations") =>
        /\ best_value = Cardinality(active_nodes(solution))
        /\ analysis.total_operations = Cardinality(fed_nodes(solution))
        /\ roots \subseteq fed_nodes(solution)
        /\ active_nodes(solution) \ roots = fed_nodes(solution) \ roots
        /\ status = "OPTIMAL" =>
              /\ active_nodes(solution) \cap roots = {}
              /\ best_value = analysis.total_operations - Len(targets_config)

has_mismatch == \E i \in DOMAIN targets_config : ~product_matches(targets_config[i])

\* C14: when a target is supplied with factors whose product differs from
\* sum(ratios), the run fails with an error before any decision variable
\* is declared and before any solve call: no problem is defined and no
\* model is compiled or solved for a mismatching target
C14_MismatchFailsBeforeVariables ==
    has_mismatch => pc \notin {"problem", "compiled", "error", "solved", "no_solution"}

\* C14 witness: a run on a mismatching target for which the variables were
\* declared and the solver was called, and which ended as infeasible
C14_Witness ==
    /\ has_mismatch
    /\ pc = "no_solution"
    /\ status = "INFEASIBLE"
    /\ dfmm_nodes # <<>>

\* what holds of a mismatching target: nothing checks the product, the run
\* goes through every step, and it ends without a solution, either because
\* the model is infeasible or in the exception of a tree without a root
C14_MismatchEndsWithoutSolution ==
    has_mismatch => pc # "solved"

\* the number of positions of s that hold x
count_of(s, x) == Cardinality({i \in DOMAIN s : s[i] = x})

\* q is an ordering of the multiset of s
is_ordering_of(q, s) ==
    /\ Len(q) = Len(s)
    /\ \A x \in Range(s) \cup Range(q) : count_of(q, x) = count_of(s, x)

orderings_of(s) == {q \in [1..Len(s) -> Range(s)] : is_ordering_of(q, s)}

\* C20: generate_unique_permutations(factors) returns exactly the distinct
\* orderings of the factor multiset: every returned sequence is a
\* permutation of the input, no ordering appears twice, every distinct
\* ordering appears, and for an empty list the result is the single empty
\* ordering
C20_UniquePermutations ==
    ff.pc = "perm_returned" =>
        /\ \A i \in DOMAIN ff.result : is_ordering_of(ff.result[i], ff.factors)
        /\ \A i, j \in DOMAIN ff.result : ff.result[i] = ff.result[j] => i = j
        /\ \A q \in orderings_of(ff.factors) : \E i \in DOMAIN ff.result : ff.result[i] = q
        /\ ff.factors = <<>> => ff.result = << <<>> >>

\* C20 witness: the call on [3, 3, 2] has returned its three orderings
C20_Witness ==
    /\ ff.pc = "perm_returned"
    /\ ff.factors = <<3, 3, 2>>
    /\ Len(ff.result) = 3
    /\ <<3, 2, 3>> \in Range(ff.result)

\* ---------------------------------------------------------------------
\* C15
\* ---------------------------------------------------------------------

\* a target list holds a target whose ratio sum has a prime factor above
\* MAX_MIXER_SIZE, so that no list of factors exists for it
unfactorizable(targets) ==
    \E i \in DOMAIN targets : has_prime_factor_above(sum(targets[i].ratios), MAX_MIXER_SIZE)

nothing_built ==
    /\ pc = "not_started"
    /\ targets_config = <<>>
    /\ tree_structures = <<>>
    /\ forest = <<>>
    /\ sharing_vars = <<>>
    /\ status = "UNKNOWN"

\* C15: in the modes that derive the factors ('auto', 'auto_permutations') a
\* target whose ratio sum cannot be factorized ends run() with ValueError
\* while nothing is built: no forest, no problem, no call of the solver, no
\* run started; and only such a target ends run() that early.  In 'random'
\* mode a scenario whose sum cannot be factorized is skipped: every run that
\* is started has a ratio sum with factors.
C15_UnfactorizableAbortsBeforeForest ==
    /\ (runner.MODE \in {"auto", "auto_permutations"} /\ unfactorizable(runner.base[1]))
          => /\ runner.pc \in {"begin", "raised"}
             /\ runner.started = 0
             /\ nothing_built
             /\ runner.pc = "raised" => runner.exception = "ValueError"
    /\ (runner.MODE \in {"auto", "auto_permutations"} /\ runner.pc = "raised"
           /\ runner.started = 0)
          => unfactorizable(runner.base[1])
    /\ (runner.MODE = "random" /\ runner.started >= 1)
          => ~unfactorizable(targets_config)
    /\ (runner.MODE = "random" /\ runner.started = 0) => nothing_built

C15_Witness ==
    /\ runner.MODE = "auto_permutations"
    /\ runner.pc = "raised"
    /\ runner.exception = "ValueError"
    /\ sum(runner.base[1][1].ratios) = 7
    /\ nothing_built

\* the same in 'random' mode: a scenario was skipped and nothing was built
C15_WitnessRandomSkip ==
    /\ runner.MODE = "random"
    /\ runner.skipped = 1
    /\ runner.started = 0
    /\ nothing_built

\* ---------------------------------------------------------------------
\* C16
\* ---------------------------------------------------------------------

runs_left ==
    IF runner.MODE = "random" THEN RANDOM_K_RUNS - runner.run_idx
    ELSE Len(runner.pending)

\* C17: in a batch, a run that fails (an exception while the problem or the
\* solver is built or solved, or an infeasible model) does not keep the
\* other runs from being made: run() never ends after a run while runs of
\* the batch are left.
C17_FailedRunLeavesSiblingsRunning ==
    (runner.pc = "raised" /\ runner.started >= 1) => runs_left = 0

\* a file batch of two runs ended by the exception of its first run
C17_Witness ==
    /\ runner.MODE = "file_load"
    /\ runner.pc = "raised"
    /\ runner.exception = "solver"
    /\ runner.started = 1
    /\ Len(runner.pending) = 1
    /\ runner.all_run_results = <<>>

\* a permutation sweep ended by the exception of its first run
C17_WitnessPermutation ==
    /\ runner.MODE = "auto_permutations"
    /\ runner.pc = "raised"
    /\ runner.exception = "solver"
    /\ runner.started = 1
    /\ Len(runner.pending) >= 1

\* a random batch ended by the return of its first run
C17_WitnessRandom ==
    /\ runner.MODE = "random"
    /\ runner.pc = "raised"
    /\ runner.exception = "ValueError"
    /\ runner.started = 1
    /\ runner.run_idx < RANDOM_K_RUNS
    /\ pc = "returned"
    /\ status = "OPTIMAL"

\* What holds in its place: an infeasible run never ends a batch of the
\* runners that take the four returned values, which end early only by an
\* exception raised inside a run; and a batch that is done has made and
\* recorded every one of its runs.
C17_OnlyExceptionsEndTheBatch ==
    /\ (runner.pc = "raised" /\ runner.started >= 1 /\ runner.MODE # "random")
          => /\ runner.exception = "solver"
             /\ pc = "raised"
             /\ status = "UNKNOWN"
    /\ (runner.pc = "raised" /\ runner.started >= 1 /\ runner.MODE = "random")
          => /\ runner.exception = "ValueError"
             /\ pc = "returned"
             /\ runner.started = 1
             /\ runner.all_run_results = <<>>
    /\ runner.pc = "done"
          => /\ runs_left = 0
             /\ Len(runner.all_run_results) = runner.started
             /\ runner.MODE = "random" => runner.started = 0

\* ---------------------------------------------------------------------
\* C19
\* ---------------------------------------------------------------------

\* the candidate edges whose source is a DFMM node below level 0
non_root_dfmm_edges ==
    {e \in Range(dfmm_nodes) \X Range(dfmm_nodes) :
        e[2][2] >= 1 /\ is_candidate(e[1], e[2])}

\* C19 as stated: a candidate edge from a DFMM node that is not a level-0
\* root exists only if the source's level is strictly smaller than the
\* destination's level.
C19_SourceStrictlyShallower ==
    problem_defined => \A e \in non_root_dfmm_edges : e[2][2] < e[1][2]

\* C19 as the code has it: a candidate edge from a DFMM node that is not a
\* level-0 root exists only if the source's level is strictly greater than
\* the destination's level (the source lies deeper in its tree, further
\* from the root, than the node it feeds); a source at the destination's
\* level or above it is a candidate only when it is a level-0 root.
C19_SourceStrictlyDeeper ==
    problem_defined =>
        /\ \A e \in non_root_dfmm_edges : e[2][2] > e[1][2]
        /\ \A dst \in Range(dfmm_nodes) : \A src \in Range(dfmm_nodes) :
              (is_candidate(dst, src) /\ src[2] <= dst[2]) => src[2] = 0

\* a deeper node that feeds a shallower one below the root of another tree,
\* a level-0 root that feeds a deeper node, and a level-1 node that is no
\* candidate for a level-2 node though only the level rule stands against it
C19_Witness ==
    /\ problem_defined
    /\ \E e \in non_root_dfmm_edges : e[2][2] > e[1][2] /\ e[1][2] >= 1
    /\ \E dst \in Range(dfmm_nodes) : \E src \in Range(dfmm_nodes) :
          src[2] = 0 /\ dst[2] >= 1 /\ is_candidate(dst, src)
    /\ \E dst \in Range(dfmm_nodes) : \E src \in Range(dfmm_nodes) :
          /\ src[2] >= 1 /\ src[2] < dst[2]
          /\ rule_not_itself(dst, src) /\ rule_level_diff(dst, src)
          /\ rule_divisibility(dst, src)
          /\ ~is_candidate(dst, src)

\* ---------------------------------------------------------------------
\* C18
\* ---------------------------------------------------------------------

output_is_bounded(src) ==
    /\ has_waste_var(src)
    /\ counted_destinations(src) = candidate_destinations(src)

\* C22: no node gives away more liquid than it produces.  For every DFMM
\* node, a level-0 root that is a candidate source for a node of another
\* tree included, and for every peer node, the compiled model keeps the sum
\* of the outgoing sharing volumes at or below totalInput, and so does
\* every assignment that satisfies it.
C22_OutputAtMostInput ==
    /\ problem_defined =>
          \A src \in all_nodes :
              candidate_destinations(src) # {} => output_is_bounded(src)
    /\ pc = "solved" =>
          \A src \in all_nodes :
              outgoing_volume(solution, src) <= solution[src].total_input_var

\* a problem in which the root of one tree is a candidate source for a node
\* of another tree: the solver's constructor raises on it
C22_Witness ==
    /\ pc = "error"
    /\ \A i \in DOMAIN targets_config : root_exists(i - 1)
    /\ \E src \in roots : \E dst \in Range(dfmm_nodes) :
          src[1] # dst[1] /\ is_candidate(dst, src)

\* What holds in its place: the non-root DFMM nodes and the peer nodes
\* have the bound in every model that compiles; a root is a candidate
\* source only for nodes of other trees, and no problem with such an edge
\* compiles; so in every solution no node gives away more than its input,
\* the roots because they give away nothing.
C22_BoundedWhereCompiled ==
    /\ problem_defined =>
          \A src \in roots : \A dst \in candidate_destinations(src) :
              dst[1] # R /\ dst[1] # src[1]
    /\ pc \in {"compiled", "solved", "no_solution"} =>
          /\ \A src \in producers : output_is_bounded(src)
          /\ \A src \in roots : candidate_destinations(src) = {}
    /\ pc = "solved" =>
          /\ \A src \in all_nodes :
                outgoing_volume(solution, src) <= solution[src].total_input_var
          /\ \A src \in roots : outgoing_volume(solution, src) = 0

\* ---------------------------------------------------------------------
\* C23
\* ---------------------------------------------------------------------

\* the precondition of C23 on the input: product(factors) == sum(ratios),
\* every factor >= 2, at least two non-zero ratios, no configured bound
plain_input ==
    /\ cfg.MAX_LEVEL_DIFF = None
    /\ cfg.MAX_SHARING_VOLUME = None
    /\ \A i \in DOMAIN targets_config :
          LET target == targets_config[i]
          IN /\ prod(target.factors) = sum(target.ratios)
             /\ \A j \in DOMAIN target.factors : target.factors[j] >= 2
             /\ Cardinality({t \in DOMAIN target.ratios : target.ratios[t] # 0}) >= 2

\* the children of DFMM node n in its tree, as node ids of the forest
children_of(n) ==
    {<<n[1], c[1], c[2]>> : c \in Range(tree_structures[n[1] + 1][<<n[2], n[3]>>])}

\* the plain DFMM plan: every peer node is inactive, and a node draws one
\* unit from each of its children, which are on the level directly below
\* in its own tree, and nothing from any other node
is_plain_plan(a) ==
    /\ \A id \in Range(peer_ids) : ~a[id].is_active_var /\ a[id].total_input_var = 0
    /\ \A n \in Range(dfmm_nodes) :
          /\ \A c \in children_of(n) : c[2] = n[2] + 1
          /\ \A key \in DOMAIN a[n].inter_sharing_vars : a[n].inter_sharing_vars[key] = 0
          /\ \A key \in DOMAIN a[n].intra_sharing_vars :
                a[n].intra_sharing_vars[key]
                   = IF intra_source(n, key) \in children_of(n) THEN 1 ELSE 0
          /\ sum(a[n].reagent_vars) + Cardinality(children_of(n)) = node_f(n)

has_plain_plan == \E a \in satisfying_assignments : is_plain_plan(a)

\* some node is a candidate source for a node of another tree
has_inter_tree_edge ==
    \E dst \in Range(dfmm_nodes) : \E src \in Range(dfmm_nodes) :
        src[1] # dst[1] /\ is_candidate(dst, src)

\* C23: for every target list whose targets have product(factors) ==
\* sum(ratios), factors >= 2 and at least two non-zero ratios, with
\* MAX_SHARING_VOLUME and MAX_LEVEL_DIFF unlimited, the model compiles and
\* is satisfiable, and the plain DFMM plan is one of its satisfying
\* assignments.
C23_PlainPlanSatisfies ==
    plain_input =>
        /\ pc \notin {"error", "no_solution"}
        /\ pc = "compiled" => has_plain_plan

\* a target list of two valid targets for which the solver's constructor
\* raises
C23_Witness ==
    /\ plain_input
    /\ pc = "error"
    /\ Len(targets_config) = 2

\* What holds in its place: the same for the target lists in which no node
\* is a candidate source for a node of another tree.
C23_PlainPlanSatisfiesWithoutInterTreeEdges ==
    (plain_input /\ problem_defined /\ ~has_inter_tree_edge) =>
        /\ pc \notin {"error", "no_solution"}
        /\ pc = "compiled" => has_plain_plan

\* a compiled single tree with two nodes on one level
C23_WitnessPlainPlan ==
    /\ plain_input
    /\ pc = "compiled"
    /\ has_plain_plan
    /\ \E n \in Range(dfmm_nodes) : n[3] >= 1

\* ---------------------------------------------------------------------
\* C24
\* ---------------------------------------------------------------------

\* the edges along which liquid may flow: source -> destination for every
\* candidate of the map, and source -> peer node for both inputs of every
\* peer node
flow_edges ==
    {e \in candidate_sources \X Range(dfmm_nodes) : is_candidate(e[2], e[1])}
    \cup {<<peer_of(id).source_a_id, id>> : id \in Range(peer_ids)}
    \cup {<<peer_of(id).source_b_id, id>> : id \in Range(peer_ids)}

\* the nodes reached from the nodes of front along flow_edges
RECURSIVE fed_from(_, _)
fed_from(front, seen) ==
    LET next == {e[2] : e \in {x \in flow_edges : x[1] \in front}} \ seen
    IN IF next = {} THEN seen ELSE fed_from(next, seen \cup next)

feeds_itself(id) ==
    id \in fed_from({e[2] : e \in {x \in flow_edges : x[1] = id}},
                    {e[2] : e \in {x \in flow_edges : x[1] = id}})

\* C24: with all factors >= 2, every candidate edge goes from a P-value to
\* a strictly larger one, p_dst being an exact multiple of f_dst * p_src,
\* so that p_dst // p_src truncates nothing; a peer node has the P-value of
\* its two sources; and no DFMM node or peer node feeds itself, directly
\* or through other nodes.
C24_CandidateGraphIsAcyclic ==
    problem_defined =>
        /\ \A dst \in Range(dfmm_nodes) : \A src \in candidate_sources :
              is_candidate(dst, src) =>
                 /\ source_p(src) < node_p(dst)
                 /\ node_p(dst) % (node_f(dst) * source_p(src)) = 0
                 /\ (node_p(dst) \div source_p(src)) * source_p(src) = node_p(dst)
        /\ \A id \in Range(peer_ids) :
              /\ peer_of(id).p_value = node_p(peer_of(id).source_a_id)
              /\ peer_of(id).p_value = node_p(peer_of(id).source_b_id)
        /\ \A id \in all_nodes : ~feeds_itself(id)

\* a problem with a chain source -> peer node -> destination next to the
\* edges from DFMM node to DFMM node
C24_Witness ==
    /\ problem_defined
    /\ \E id \in Range(peer_ids) : \E dst \in Range(dfmm_nodes) : is_candidate(dst, id)
    /\ \E dst \in Range(dfmm_nodes) : \E src \in Range(dfmm_nodes) :
          src[2] >= 1 /\ is_candidate(dst, src)

\* a problem of two trees with an edge from one tree to the other
C24_WitnessInterTree ==
    /\ problem_defined
    /\ \E dst \in Range(dfmm_nodes) : \E src \in Range(dfmm_nodes) :
          src[1] # dst[1] /\ is_candidate(dst, src)

\* ---------------------------------------------------------------------
\* C25
\* ---------------------------------------------------------------------

\* product(factors[level:]), multiplied out from the last factor upwards
RECURSIVE product_from(_, _)
product_from(factors, level) ==
    IF level >= Len(factors) THEN 1
    ELSE factors[level + 1] * product_from(factors, level + 1)

\* C25: for every node of a built tree, with or without children, the
\* P-value is product(factors[level:]) of its target; it depends on the
\* level alone, so the children of a node, and all nodes of one level, have
\* one P-value, and p_value == factor holds exactly on the deepest level
\* of the tree (level == len(factors) - 1).
C25_PValueIsProductOfFactorsFromLevel ==
    p_values_known =>
        \A i \in DOMAIN tree_structures :
            LET factors == targets_config[i].factors
                tree == tree_structures[i]
            IN /\ DOMAIN p_values[i] = DOMAIN tree
               /\ \A id \in DOMAIN tree :
                     /\ p_values[i][id] = product_from(factors, id[1])
                     /\ \A c \in Range(tree[id]) : \A d \in Range(tree[id]) :
                           p_values[i][c] = p_values[i][d]
                     /\ \A c \in Range(tree[id]) :
                           p_values[i][id] = factors[id[1] + 1] * p_values[i][c]
                     /\ \A other \in DOMAIN tree :
                           other[1] = id[1] => p_values[i][other] = p_values[i][id]
                     /\ p_values[i][id] = factors[id[1] + 1] <=> id[1] = Len(factors) - 1

\* a tree with a node that has two children, a childless node above the
\* deepest level and a node on the deepest level
C25_Witness ==
    /\ p_values_known
    /\ \E i \in DOMAIN tree_structures :
          /\ \E id \in DOMAIN tree_structures[i] : Len(tree_structures[i][id]) >= 2
          /\ \E id \in DOMAIN tree_structures[i] :
                id[1] = Len(targets_config[i].factors) - 1
    /\ \E i \in DOMAIN tree_structures :
          \E id \in DOMAIN tree_structures[i] :
             /\ tree_structures[i][id] = <<>>
             /\ id[1] < Len(targets_config[i].factors) - 1

\* ---------------------------------------------------------------------
\* C26
\* ---------------------------------------------------------------------

\* the reagent units put into the nodes of ids, node by node
RECURSIVE reagent_input(_, _)
reagent_input(a, ids) ==
    IF ids = {} THEN 0
    ELSE LET id == CHOOSE x \in ids : TRUE
         IN sum(a[id].reagent_vars) + reagent_input(a, ids \ {id})

\* over the roots: the factor of level 0 less the volume the root shares out
RECURSIVE kept_in_roots(_, _)
kept_in_roots(a, ids) ==
    IF ids = {} THEN 0
    ELSE LET id == CHOOSE x \in ids : TRUE
         IN (node_f(id) - outgoing_volume(a, id)) + kept_in_roots(a, ids \ {id})

RECURSIVE root_factors(_)
root_factors(ids) ==
    IF ids = {} THEN 0
    ELSE LET id == CHOOSE x \in ids : TRUE IN node_f(id) + root_factors(ids \ {id})

RECURSIVE value_at_level(_, _, _)
value_at_level(v, factors, l) ==
    IF l >= Len(factors) - 1 THEN v
    ELSE value_at_level(v, factors, l + 1) \div factors[l + 2]

\* the sum of the remainders v % f of level l of tree i, reagent by reagent
RECURSIVE remainder_sum(_, _, _)
remainder_sum(i, l, r) ==
    IF r = 0 THEN 0
    ELSE (value_at_level(targets_config[i].ratios[r], targets_config[i].factors, l)
              % targets_config[i].factors[l + 1])
         + remainder_sum(i, l, r - 1)

nodes_at_level(i, l) == {id \in DOMAIN tree_structures[i] : id[1] = l}

\* what arrives at level l: the remainders and the nodes of the level below
level_inputs(i, l) ==
    remainder_sum(i, l, Len(targets_config[i].ratios))
        + Cardinality(nodes_at_level(i, l + 1))

\* C27: in every built tree the nodes of a level with factor f are
\* <<l, 0>> .. <<l, N - 1>> with N = ceil((sum over the reagents of v % f +
\* number of nodes of the level below) / f), where v is the ratio on the
\* deepest level and the quotient v // f of the level below otherwise; N is
\* 0 when the sum is 0; and when product(factors) == sum(ratios) the sum is
\* an exact multiple of f on every level.
C27_NodesPerLevel ==
    \A i \in DOMAIN tree_structures :
        LET factors == targets_config[i].factors
            tree == tree_structures[i]
        IN /\ \A id \in DOMAIN tree : id[1] \in 0..(Len(factors) - 1)
           /\ \A l \in 0..(Len(factors) - 1) :
                 LET f == factors[l + 1]
                     inputs == level_inputs(i, l)
                     N == Cardinality(nodes_at_level(i, l))
                 IN /\ nodes_at_level(i, l) = {<<l, k>> : k \in 0..(N - 1)}
                    /\ N * f >= inputs
                    /\ (N - 1) * f < inputs \/ (N = 0 /\ inputs = 0)
                    /\ inputs = 0 => N = 0
                    /\ product_matches(targets_config[i]) =>
                          inputs % f = 0 /\ N * f = inputs

\* a valid target whose tree has a level that takes both remainders and
\* nodes from below, and a level of two nodes
C27_Witness ==
    /\ pc = "forest"
    /\ \E i \in DOMAIN tree_structures :
          /\ product_matches(targets_config[i])
          /\ \E l \in 0..(Len(targets_config[i].factors) - 1) :
                /\ remainder_sum(i, l, Len(targets_config[i].ratios)) > 0
                /\ nodes_at_level(i, l + 1) # {}
          /\ \E l \in 0..(Len(targets_config[i].factors) - 1) :
                Cardinality(nodes_at_level(i, l)) >= 2

\* a target whose factors do not multiply to the ratio sum: a level whose
\* inputs are no multiple of the factor gets the quotient rounded up
C27_WitnessRoundedUp ==
    /\ pc = "forest"
    /\ \E i \in DOMAIN tree_structures :
          \E l \in 0..(Len(targets_config[i].factors) - 1) :
              /\ level_inputs(i, l) % targets_config[i].factors[l + 1] # 0
              /\ Cardinality(nodes_at_level(i, l)) * targets_config[i].factors[l + 1]
                    > level_inputs(i, l)

\* ---------------------------------------------------------------------
\* C28
\* ---------------------------------------------------------------------

\* the nodes of tree i that list child among their children
parents_of(i, child) ==
    {parent \in DOMAIN tree_structures[i] : child \in Range(tree_structures[i][parent])}

\* the children parent <<l, j>> gets when child k goes to parent k mod N:
\* <<l + 1, j>>, <<l + 1, j + N>>, ... below M, in index order
RECURSIVE round_robin_children(_, _, _, _)
round_robin_children(l, k, N, M) ==
    IF k >= M THEN <<>>
    ELSE <<<<l + 1, k>>>> \o round_robin_children(l, k + N, N, M)

\* C28: in every built tree the nodes of level l + 1 are attached to the
\* nodes of level l round-robin in index order, child k to parent k mod N:
\* every node below level 0 is a child of exactly one node, which is on the
\* level directly above and lists it once; the child counts of two parents
\* of one level differ by at most one; and no parent has more children than
\* the factor of its level.
C28_RoundRobinParents ==
    \A i \in DOMAIN tree_structures :
        LET factors == targets_config[i].factors
            tree == tree_structures[i]
        IN /\ \A l \in 0..(Len(factors) - 1) :
                 LET N == Cardinality(nodes_at_level(i, l))
                     M == Cardinality(nodes_at_level(i, l + 1))
                 IN /\ M > 0 => N > 0
                    /\ \A k \in 0..(M - 1) :
                          parents_of(i, <<l + 1, k>>) = {<<l, k % N>>}
                    /\ \A j \in 0..(N - 1) :
                          tree[<<l, j>>] = round_robin_children(l, j, N, M)
           /\ \A child \in DOMAIN tree : child[1] >= 1 =>
                 /\ Cardinality(parents_of(i, child)) = 1
                 /\ \A parent \in parents_of(i, child) :
                       /\ parent[1] = child[1] - 1
                       /\ Cardinality({x \in DOMAIN tree[parent] : tree[parent][x] = child}) = 1
           /\ \A parent \in DOMAIN tree :
                 /\ Len(tree[parent]) <= factors[parent[1] + 1]
                 /\ \A other \in DOMAIN tree : other[1] = parent[1] =>
                       Len(tree[parent]) - Len(tree[other]) \in {-1, 0, 1}

\* a tree in which two nodes of a level are attached to two nodes of the
\* level above, and a tree in which one parent has a child and its
\* neighbour has none
C28_Witness ==
    /\ pc = "forest"
    /\ \E i \in DOMAIN tree_structures : \E l \in 0..(Len(targets_config[i].factors) - 1) :
          /\ Cardinality(nodes_at_level(i, l)) >= 2
          /\ Cardinality(nodes_at_level(i, l + 1)) >= 2
          /\ tree_structures[i][<<l, 1>>] = <<<<l + 1, 1>>>>

\* one parent has a child more than its neighbour on the level
C28_WitnessUneven ==
    /\ pc = "forest"
    /\ \E i \in DOMAIN tree_structures : \E p \in DOMAIN tree_structures[i] :
          \E q \in DOMAIN tree_structures[i] :
              /\ p[1] = q[1]
              /\ Len(tree_structures[i][p]) = Len(tree_structures[i][q]) + 1

\* a parent with as many children as its factor
C28_WitnessFull ==
    /\ pc = "forest"
    /\ \E i \in DOMAIN tree_structures : \E p \in DOMAIN tree_structures[i] :
          /\ Len(tree_structures[i][p]) = targets_config[i].factors[p[1] + 1]
          /\ Len(tree_structures[i][p]) >= 2

\* ---------------------------------------------------------------------
\* C29
\* ---------------------------------------------------------------------

\* the values of the sharing variables of the DFMM nodes of an assignment:
\* intra-tree, inter-tree and peer-sourced
sharing_values(a) ==
    UNION {{a[n].intra_sharing_vars[key] : key \in DOMAIN a[n].intra_sharing_vars}
           \cup {a[n].inter_sharing_vars[key] : key \in DOMAIN a[n].inter_sharing_vars} :
           n \in Range(dfmm_nodes)}

\* C29: every sharing-volume variable lies between 0 and
\* min(MAX_SHARING_VOLUME, generic upper bound) whenever MAX_SHARING_VOLUME
\* is configured with a non-null value, the value 0 included, and between 0
\* and the generic upper bound when it is null.
C29_SharingVolumeIsCapped ==
    pc = "solved" =>
        \A v \in sharing_values(solution) :
            /\ v >= 0
            /\ v <= (IF cfg.MAX_SHARING_VOLUME = None THEN MAX_BOUND
                     ELSE min2(cfg.MAX_SHARING_VOLUME, MAX_BOUND))

\* MAX_SHARING_VOLUME is 0 and the solution shares liquid
C29_Witness ==
    /\ pc = "solved"
    /\ cfg.MAX_SHARING_VOLUME = 0
    /\ \E v \in sharing_values(solution) : v >= 2

\* C29 (values other than 0): a null MAX_SHARING_VOLUME leaves the generic
\* upper bound, a positive one caps every sharing variable, and 0 is read as
\* no limit.
C29_CappedUnlessZero ==
    pc = "solved" =>
        \A v \in sharing_values(solution) :
            /\ v >= 0
            /\ v <= (IF cfg.MAX_SHARING_VOLUME \in {None, 0} THEN MAX_BOUND
                     ELSE min2(cfg.MAX_SHARING_VOLUME, MAX_BOUND))

\* a positive MAX_SHARING_VOLUME is reached by a sharing variable
C29_WitnessCapped ==
    /\ pc = "solved"
    /\ cfg.MAX_SHARING_VOLUME = 1
    /\ \E v \in sharing_values(solution) : v = 1

\* ---------------------------------------------------------------------
\* C30
\* ---------------------------------------------------------------------

\* the total input of a node, added up from its inputs: reagents and
\* sharing variables of a DFMM node, the two inputs of a peer node
inputs_of(a, id) ==
    IF id[1] = R THEN a[id].from_a + a[id].from_b ELSE input_total(a, id)

mixing_nodes(a) == {id \in all_nodes : inputs_of(a, id) > 0}

\* the positive reagent inputs of the DFMM nodes of ids, one by one
RECURSIVE positive_reagent_input(_, _, _)
positive_reagent_input(a, ids, t) ==
    IF ids = {} THEN 0
    ELSE LET id == CHOOSE x \in ids : TRUE
             rest == IF t = 1 THEN ids \ {id} ELSE ids
             next == IF t = 1 THEN num_reagents ELSE t - 1
         IN (IF id[1] # R /\ a[id].reagent_vars[t] > 0 THEN a[id].reagent_vars[t] ELSE 0)
            + (IF rest = {} THEN 0 ELSE positive_reagent_input(a, rest, next))

RECURSIVE waste_vars_of(_, _)
waste_vars_of(a, ids) ==
    IF ids = {} THEN 0
    ELSE LET id == CHOOSE x \in ids : TRUE
         IN a[id].waste_var + waste_vars_of(a, ids \ {id})

C30_WitnessUnusedReagent ==
    /\ pc = "solved"
    /\ DOMAIN analysis.reagent_usage # 1..num_reagents
    /\ analysis.total_reagent_units > 0

\* a solution in which a peer node mixes and is listed first
C30_WitnessPeer ==
    /\ pc = "solved"
    /\ \E id \in Range(peer_ids) : solution[id].total_input_var > 0
    /\ analysis.total_waste > 0
    /\ analysis.nodes_details[1].id[1] = R

====
